---- MODULE Spec2Model ----
(***************************************************************************)
(* The Witness supervision loop of Gas Town (internal/witness/manager.go): *)
(* one patrol tick is health check, mailbox drain, pending-completion      *)
(* watchdog.  The polecats' worktrees, tmux sessions, branches, issues and *)
(* the witness inbox are the environment; git, tmux, bd and gt subprocess  *)
(* results are inputs of the step that runs them.                          *)
(***************************************************************************)
EXTENDS Integers, Sequences, FiniteSets, TLC

(* ------------------------------ bounds --------------------------------- *)

\* Messages ever delivered to the witness inbox.
MaxMsgs == 2

\* "nudge:<name>" entries the scratch log may come to hold: a worker goes
\* quiet only while the entries its episode can add still fit.
MaxNudgeTags == 4

\* Largest number of stashes or of unpushed commits.
MaxCount == 1

\* Longest list `bd ready` returns.
MaxReady == 3

(* ------------------------- program constants --------------------------- *)

StuckThresholdMinutes == 30

\* max_workers when the configuration leaves it unset.
DefaultMaxWorkers == 4

\* PendingCompletionTimeout, in minutes.
PendingCompletionTimeout == 10

(* ------------------------------- data ---------------------------------- *)

Polecats == {"Rictus", "Toast", "Nux", "Slit"}

\* The order in which polecat.Manager.List() returns the rig's polecats.
PolecatOrder == <<"Rictus", "Toast", "Nux", "Slit">>

\* The polecats at work in a rig that spawns no others.
Crew == {"Rictus", "Toast"}

RigName == "gastown"

\* time.Time{} / a nil *time.Time.
NoTime == 0 - 1

\* The instants at which the clock is sampled (minutes).
ClockSamples == {0, PendingCompletionTimeout - 1, PendingCompletionTimeout,
                 PendingCompletionTimeout + 1}

\* Age in minutes of a probed file; NoFile when os.Stat fails.
NoFile == 0 - 1
Fresh == [git |-> 0, state |-> 0, latest |-> 0]

\* The ages of .git, .runtime/state.json and the latest key file a health
\* check may find: one per way through checkPolecatHealth, at and around the
\* threshold.
ActivityProfiles ==
    {Fresh,
     [git |-> StuckThresholdMinutes - 1, state |-> NoFile, latest |-> NoFile],
     [git |-> StuckThresholdMinutes, state |-> StuckThresholdMinutes - 1,
      latest |-> NoFile],
     [git |-> NoFile, state |-> StuckThresholdMinutes,
      latest |-> StuckThresholdMinutes - 1],
     [git |-> StuckThresholdMinutes, state |-> StuckThresholdMinutes,
      latest |-> StuckThresholdMinutes],
     [git |-> NoFile, state |-> NoFile, latest |-> NoFile]}

CleanWork == [modified |-> 0, untracked |-> 0, stash |-> 0, unpushed |-> 0]

\* What a worktree may hold: nothing to lose, or one kind of unsaved work.
WorkProfiles ==
    {CleanWork, [CleanWork EXCEPT !.modified = 1],
     [CleanWork EXCEPT !.untracked = 1]} \cup
    {[CleanWork EXCEPT ![f] = n] : f \in {"stash", "unpushed"}, n \in 1..MaxCount}

Blank == {"", " "}

RECURSIVE TrimLeft(_)
TrimLeft(ps) ==
    IF ps # <<>> /\ Head(ps) \in Blank THEN TrimLeft(Tail(ps)) ELSE ps

RECURSIVE TrimRight(_)
TrimRight(ps) ==
    IF ps # <<>> /\ ps[Len(ps)] \in Blank
    THEN TrimRight(SubSeq(ps, 1, Len(ps) - 1)) ELSE ps

RECURSIVE Join(_)
Join(ps) == IF ps = <<>> THEN "" ELSE Head(ps) \o Join(Tail(ps))

\* strings.TrimSpace on a string given as its pieces.
TrimSpace(ps) == Join(TrimRight(TrimLeft(ps)))

\* strings.HasPrefix / strings.Contains on a string given as its pieces.
HasPrefix(ps, piece) == Len(ps) >= 1 /\ ps[1] = piece
Contains(ps, piece) == \E i \in 1..Len(ps) : ps[i] = piece

DoneSubject(rest) == <<"POLECAT_DONE ", rest>>
LifecycleSubject == <<"LIFECYCLE:", " polecat requesting ", "shutdown">>
HelpSubject == <<"HELP: ", "Toast", " on ", "gt-1">>

\* Subjects and bodies the inbox may receive.
MessageTemplates ==
    {[subject |-> DoneSubject(p), body |-> <<>>] : p \in Crew \cup {" "}}
    \cup {[subject |-> LifecycleSubject, body |-> <<"Polecat:", " ", "Toast">>],
          [subject |-> LifecycleSubject, body |-> <<"Rig:", " ", RigName>>],
          [subject |-> HelpSubject, body |-> <<>>]}

\* extractPolecatNameFromDone: the trimmed rest of "POLECAT_DONE <name>".
extractPolecatNameFromDone(subject) ==
    IF HasPrefix(subject, "POLECAT_DONE ") THEN TrimSpace(Tail(subject)) ELSE ""

\* The first non-blank piece after position i, "" when there is none.
CaptureAfter(body, i) ==
    LET rest == TrimLeft(SubSeq(body, i + 1, Len(body)))
    IN  IF rest = <<>> THEN "" ELSE Head(rest)

\* extractPolecatName: the regexp  Polecat:\s*(\S+)  on the body.
extractPolecatName(body) ==
    LET hits == {i \in 1..Len(body) :
                    body[i] = "Polecat:" /\ CaptureAfter(body, i) # ""}
    IN  IF hits = {} THEN ""
        ELSE CaptureAfter(body, CHOOSE i \in hits : \A j \in hits : i <= j)

(* ------------------------- the scratch log ----------------------------- *)

\* An entry of Witness.SpawnedIssues: "<kind>:<name>[:<timestamp>]".
Tag(k, n, t) == [kind |-> k, name |-> n, ts |-> t]
doneKey(p) == Tag("done", p, NoTime)
issueKey(id) == Tag("issue", id, NoTime)
nudgeKey(p) == Tag("nudge", p, NoTime)

CountOf(seq, e) == Cardinality({i \in 1..Len(seq) : seq[i] = e})

(* -------------------------- handoff state ------------------------------ *)

\* The zero WorkerState a Go map lookup yields for a missing key.
ZeroWorkerState ==
    [NudgeCount |-> 0, LastNudge |-> NoTime, LastActive |-> NoTime,
     Issue |-> "", ArmID |-> ""]

GetWS(wsmap, p) == IF p \in DOMAIN wsmap THEN wsmap[p] ELSE ZeroWorkerState

SetWS(wsmap, p, v) ==
    [q \in DOMAIN wsmap \cup {p} |-> IF q = p THEN v ELSE wsmap[q]]

EmptyMap == [q \in {} |-> ZeroWorkerState]

VARIABLES
    worktree,           \* [p] <rig>/polecats/p exists
    session,            \* [p] tmux session of p is running
    branch,             \* [p] branch polecat/p exists in the mayor's clone
    work,               \* [p] modified, untracked, stash, unpushed of p's worktree
    issue,              \* [p] status of the issue named in p's .runtime/state.json
    age,                \* [p] ages of the files the health check probes
    inbox,              \* open messages of <rig>/witness, newest first
    nextId,             \* id of the next message delivered
    now,                \* the clock
    SpawnedIssues,      \* Witness.SpawnedIssues
    MonitoredPolecats,  \* Witness.MonitoredPolecats
    handoffState,       \* Manager.handoffState
    pc,                 \* where checkAndProcess is
    todo,               \* what the running loop has still to visit
    log,                \* what this tick has done, in order
    pre,                \* the world as the tick found it
    hist,               \* [p] the health observations of p so far
    Config,             \* Witness.Config: AutoSpawn, MaxWorkers
    faults,             \* the listing commands that fail at present
    disk,               \* .runtime/witness.json: State and PID
    wsession,           \* the tmux session gt-<rig>-witness
    saved,              \* .runtime/witness.json: spawned_issues
    bead,               \* the handoff bead's description, as the state it encodes
    loop,               \* the process in run(): alive, initial tick due, ticker
    stopper,            \* what a Stop under way has read from the state file
    input,              \* the arguments of the call under study
    output,             \* what the call returned
    fs,                 \* the files a writer and a reader share
    mailq               \* the queue messages the beads store holds

vars == <<worktree, session, branch, work, issue, age, inbox, nextId, now,
          SpawnedIssues, MonitoredPolecats, handoffState, pc, todo, log,
          pre, hist, Config, faults, disk, wsession, saved, bead, loop,
          stopper, input, output, fs, mailq>>

world == <<worktree, session, branch, work, issue, age>>
witness == <<SpawnedIssues, MonitoredPolecats, handoffState>>
store == <<disk, saved, bead>>
control == <<loop, stopper>>
desk == <<input, output, fs, mailq>>
setup == <<Config, faults, wsession, store, control, desk>>

(* --------------------------- what a tick did --------------------------- *)

\* One entry of the tick's record: the operation, the worker it concerns, its
\* outcome or text, a count, whether the subprocess succeeded, and the id of
\* the inbox message being handled (0 outside the mailbox drain).
Ev(op, who, arg, n, ok, mid) ==
    [op |-> op, who |-> who, arg |-> arg, n |-> n, ok |-> ok, msg |-> mid]

(* ------------------------- nudge bookkeeping --------------------------- *)

\* getNudgeCount: the handoff entry when there is one, else the number of
\* legacy "nudge:<name>" entries.  m.handoffState is non-nil once run() has
\* started.
getNudgeCount(wsmap, spawned, p) ==
    IF p \in DOMAIN wsmap THEN wsmap[p].NudgeCount
    ELSE CountOf(spawned, nudgeKey(p))

\* A recordNudge that forgets the count.
recordNudgeHandoff_NoIncrement(wsmap, p, t) ==
    SetWS(wsmap, p, [GetWS(wsmap, p) EXCEPT !.LastNudge = t])

\* recordNudge, the handoff half: count + 1, last_nudge stamped.
recordNudgeHandoff(wsmap, p, t) ==
    SetWS(wsmap, p, [GetWS(wsmap, p) EXCEPT !.NudgeCount = @ + 1,
                                            !.LastNudge = t])

\* recordNudge, the legacy half.
recordNudgeLegacy(spawned, p) == Append(spawned, nudgeKey(p))

\* clearNudgeCount: only an existing entry is reset.
clearNudgeCount(wsmap, p, t) ==
    IF p \in DOMAIN wsmap
    THEN SetWS(wsmap, p, [wsmap[p] EXCEPT !.NudgeCount = 0,
                                          !.LastNudge = NoTime,
                                          !.LastActive = t])
    ELSE wsmap

\* An updateWorkerActivity that only stamps last_active.
updateWorkerActivity_KeepsCount(wsmap, p, issueID, t) ==
    SetWS(wsmap, p, [GetWS(wsmap, p) EXCEPT !.LastActive = t])

\* updateWorkerActivity: last_active stamped, a positive count cleared.
updateWorkerActivity(wsmap, p, issueID, t) ==
    LET ws0 == GetWS(wsmap, p)
        ws1 == [ws0 EXCEPT !.LastActive = t,
                           !.Issue = IF issueID # "" THEN issueID ELSE @]
        ws2 == IF ws1.NudgeCount > 0
               THEN [ws1 EXCEPT !.NudgeCount = 0, !.LastNudge = NoTime]
               ELSE ws1
    IN  SetWS(wsmap, p, ws2)

\* A handleStuckPolecat whose last branch is missing.
StuckAction_EscalatesAgain(nudgeCount) ==
    IF nudgeCount = 0 THEN "nudge" ELSE "escalate"

\* handleStuckPolecat's choice on the nudge count.
StuckAction(nudgeCount) ==
    IF nudgeCount = 0 THEN "nudge"
    ELSE IF nudgeCount = 1 THEN "escalate"
    ELSE "wait"

\* checkPolecatHealth: healthy when .git, .runtime/state.json or the latest of
\* the key files was modified less than the threshold ago.
Recent(a) == a # NoFile /\ a < StuckThresholdMinutes
checkPolecatHealth(gitAge, stateAge, latestAge) ==
    IF Recent(gitAge) THEN "healthy"
    ELSE IF Recent(stateAge) THEN "healthy"
    ELSE IF Recent(latestAge) THEN "healthy"
    ELSE "stuck"

\* ensurePolecatArm on the handoff state: armExists is the result of
\* `bd show <arm>`, bondOk that of `gt mol bond`.
ensurePolecatArm(hs, p, armExists, bondOk) ==
    IF hs.PatrolInstanceID = "" THEN hs
    ELSE
      LET ws == GetWS(hs.WorkerStates, p)
      IN  IF ws.ArmID # "" /\ armExists THEN hs
          ELSE
            LET cleared == IF ws.ArmID # ""
                           THEN SetWS(hs.WorkerStates, p, [ws EXCEPT !.ArmID = ""])
                           ELSE hs.WorkerStates
            IN  IF bondOk
                THEN [hs EXCEPT !.WorkerStates =
                        SetWS(cleared, p,
                              [GetWS(cleared, p) EXCEPT !.ArmID = "arm-" \o p])]
                ELSE [hs EXCEPT !.WorkerStates = cleared]

(* ---------------------------- done / waiting --------------------------- *)

\* A hasSentDone that does not look.
hasSentDone_Ignored(spawned, p) == TRUE

hasSentDone(spawned, p) == \E i \in 1..Len(spawned) : spawned[i] = doneKey(p)

recordDone(spawned, p) ==
    IF hasSentDone(spawned, p) THEN spawned ELSE Append(spawned, doneKey(p))

\* The characters of a worker name, for prefix tests.
Chars(name) ==
    CASE name = "Toast" -> <<"T", "o", "a", "s", "t">>
      [] name = "Rictus" -> <<"R", "i", "c", "t", "u", "s">>
      [] name = "Nux" -> <<"N", "u", "x">>
      [] name = "Slit" -> <<"S", "l", "i", "t">>
      [] name = "Joe" -> <<"J", "o", "e">>
      [] name = "Joey" -> <<"J", "o", "e", "y">>
      [] OTHER -> <<>>

IsPrefix(a, b) == Len(a) <= Len(b) /\ SubSeq(b, 1, Len(a)) = a

\* A lookup that never finds the entry.
getWaitingTimestamp_NeverFound(spawned, p) == NoTime

\* getWaitingTimestamp: the first "waiting:<name>:<ts>" entry, else zero time.
getWaitingTimestamp(spawned, p) ==
    LET hits == {i \in 1..Len(spawned) :
                    spawned[i].kind = "waiting" /\ spawned[i].name = p}
    IN  IF hits = {} THEN NoTime
        ELSE spawned[CHOOSE i \in hits : \A j \in hits : i <= j].ts

recordWaiting(spawned, p, t) == Append(spawned, Tag("waiting", p, t))

\* clearWaiting: drops every entry that starts with "waiting:<name>".
clearWaiting(spawned, p) ==
    SelectSeq(spawned,
              LAMBDA e : ~(e.kind = "waiting" /\ IsPrefix(Chars(p), Chars(e.name))))

(* ------------------------------ the VCS -------------------------------- *)

\* git.Status().Clean: no modified and no untracked file.
StatusClean(w) == w.modified = 0 /\ w.untracked = 0

\* UncommittedWorkStatus.Clean(): no uncommitted change, stash or unpushed commit.
Clean(w) == StatusClean(w) /\ w.stash = 0 /\ w.unpushed = 0

\* The subprocess outcomes one verification and one cleanup of p consume.  A
\* command that is not run, or has one possible result, has one outcome:
\* nothing is probed without a directory, no session is stopped that does not
\* run, a missing branch is never deleted with success.
Opt(c) == IF c THEN BOOLEAN ELSE {FALSE}
VerifyOutcomes(p) ==
    {v \in [statusErr : Opt(worktree[p]),
            pushErr : Opt(worktree[p] /\ StatusClean(work[p]))] :
        ~(v.statusErr /\ v.pushErr)}
CleanupOutcomes(p) ==
    {o \in [checkErr : Opt(worktree[p]), killOk : BOOLEAN, removeOk : BOOLEAN,
            branchOk : BOOLEAN] :
        /\ ~session[p] => o.killOk
        /\ ~worktree[p] => o.removeOk
        /\ ~branch[p] => ~o.branchOk
        /\ (branch[p] /\ ~o.removeOk) => o.branchOk
        /\ (worktree[p] /\ ~o.checkErr /\ ~Clean(work[p]))
              => (o.killOk /\ o.removeOk /\ o.branchOk = branch[p])}

(* ------------------------ verifyPolecatState --------------------------- *)

\* The result of verifyPolecatState(p): nil (ok) or the error text and count,
\* with the git calls it made.
verifyPolecatState(p, v, mid) ==
    IF ~worktree[p]
    THEN [ok |-> TRUE, reason |-> "", n |-> 0, events |-> <<>>]
    ELSE IF v.statusErr
    THEN [ok |-> FALSE, reason |-> "checking git status", n |-> 0,
          events |-> <<Ev("status", p, "err", 0, FALSE, mid)>>]
    ELSE IF ~StatusClean(work[p])
    THEN [ok |-> FALSE, reason |-> "git working tree is not clean", n |-> 0,
          events |-> <<Ev("status", p, "dirty", 0, TRUE, mid)>>]
    ELSE IF v.pushErr
    THEN [ok |-> TRUE, reason |-> "", n |-> 0,
          events |-> <<Ev("status", p, "clean", 0, TRUE, mid),
                       Ev("pushcheck", p, "err", 0, FALSE, mid)>>]
    ELSE IF work[p].unpushed > 0
    THEN [ok |-> FALSE, reason |-> "branch has unpushed commit(s)",
          n |-> work[p].unpushed,
          events |-> <<Ev("status", p, "clean", 0, TRUE, mid),
                       Ev("pushcheck", p, "unpushed", work[p].unpushed, TRUE, mid)>>]
    ELSE [ok |-> TRUE, reason |-> "", n |-> 0,
          events |-> <<Ev("status", p, "clean", 0, TRUE, mid),
                       Ev("pushcheck", p, "pushed", 0, TRUE, mid)>>]

(* --------------------------- cleanupPolecat ---------------------------- *)

\* Step 1: CheckUncommittedWork in the worktree.  It returns an error when the
\* directory is gone ("nodir") or a git command fails ("err").
CheckResult(p, o) ==
    IF ~worktree[p] THEN "nodir"
    ELSE IF o.checkErr THEN "err"
    ELSE IF Clean(work[p]) THEN "clean"
    ELSE "dirty"

\* The test of status.Clean() inverted.
ProceedsAfterCheck_Inverted(checkResult) == checkResult # "clean"

\* Whether cleanupPolecat goes on after step 1: an error of the check is
\* logged as a warning, only observed uncommitted work refuses.
ProceedsAfterCheck(checkResult) == checkResult # "dirty"

\* Step 3: RemoveWithOptions(name, force, nuclear).
RemoveResult(p, o) ==
    IF ~worktree[p] THEN "notfound" ELSE IF o.removeOk THEN "ok" ELSE "fail"

\* A cleanupPolecat that returns the session's stop error.
CleanupReturn_KillFatal(checkResult, killFailed, removeResult, branchFailed) ==
    IF checkResult = "dirty" THEN "uncommitted"
    ELSE IF killFailed THEN "kill"
    ELSE IF removeResult = "fail" THEN "remove"
    ELSE "ok"

\* What cleanupPolecat returns: nil ("ok"), the uncommitted-work error or the
\* wrapped removal error.  A failed session stop or branch deletion is a warning.
CleanupReturn(checkResult, killFailed, removeResult, branchFailed) ==
    IF ~ProceedsAfterCheck(checkResult) THEN "uncommitted"
    ELSE IF removeResult = "fail" THEN "remove"
    ELSE "ok"

\* The steps cleanupPolecat runs, in its order, and what they leave behind.
cleanupPolecat(p, o, mid) ==
    LET chk      == CheckResult(p, o)
        go       == ProceedsAfterCheck(chk)
        killed   == session[p] /\ o.killOk
        rem      == RemoveResult(p, o)
        delOk    == branch[p] /\ o.branchOk
        ret      == CleanupReturn(chk, session[p] /\ ~o.killOk, rem, ~delOk)
        reached  == go /\ rem # "fail"
    IN  [ret      |-> ret,
         session  |-> IF go /\ killed THEN FALSE ELSE session[p],
         worktree |-> IF go /\ rem = "ok" THEN FALSE ELSE worktree[p],
         branch   |-> IF reached /\ delOk THEN FALSE ELSE branch[p],
         events   |->
            <<Ev("check", p, chk, 0, chk \in {"clean", "dirty"}, mid)>>
            \o (IF go /\ session[p]
                THEN <<Ev("kill", p, "", 0, o.killOk, mid)>> ELSE <<>>)
            \o (IF go THEN <<Ev("remove", p, rem, 0, rem # "fail", mid)>> ELSE <<>>)
            \o (IF reached
                THEN <<Ev("delbranch", p, IF branch[p] THEN "branch" ELSE "nobranch",
                          0, delOk, mid)>>
                ELSE <<>>)
            \o <<Ev("cleanup", p, ret, 0, ret = "ok", mid)>>]

\* The world after a cleanupPolecat whose result is c.
ApplyCleanup(p, c) ==
    /\ session' = [session EXCEPT ![p] = c.session]
    /\ worktree' = [worktree EXCEPT ![p] = c.worktree]
    /\ branch' = [branch EXCEPT ![p] = c.branch]
    /\ work' = [work EXCEPT ![p] = IF c.worktree THEN @ ELSE CleanWork]
    /\ UNCHANGED <<issue, age>>

(* ------------------------------- Init ---------------------------------- *)

NoPre == [worktree |-> <<>>, session |-> <<>>, branch |-> <<>>, work |-> <<>>,
          inbox |-> <<>>, spawned |-> <<>>]

NoHist == [run |-> 0, last |-> "none"]

\* The zero WitnessConfig: auto-spawn off, max_workers unset.
NoAutoSpawn == [AutoSpawn |-> FALSE, MaxWorkers |-> 0]

\* os.Getpid() of the process that runs the patrol, and the pid of another.
SelfPID == 1
OtherPID == 2

\* The Witness that Start(foreground) keeps in memory and saveState writes.
Running == [State |-> "running", PID |-> SelfPID]

\* run() after its initial checkAndProcess: the process is alive and waits on
\* ticker.C, which holds no tick.
Patrolling == [proc |-> "up", first |-> FALSE, ticker |-> TRUE, tick |-> 0,
               fired |-> 0, starts |-> 1]

\* No process runs run().
Down == [proc |-> "down", first |-> FALSE, ticker |-> FALSE, tick |-> 0,
         fired |-> 0, starts |-> 0]

\* No state file.
Absent == [State |-> "", PID |-> 0]

\* The handoff state of a bead that ensureHandoffBead has just created.
EmptyHandoff == [WorkerStates |-> EmptyMap, PatrolInstanceID |-> "",
                 LastPatrol |-> NoTime]

\* No Stop is under way.
NoStop == [at |-> "none", disk |-> [State |-> "stopped", PID |-> 0],
           saved |-> <<>>]

\* No call is under study, no file is shared, no queue holds a message.
NoResult == [done |-> FALSE, value |-> <<>>]
Idle ==
    /\ input = <<>>
    /\ output = NoResult
    /\ fs = <<>>
    /\ mailq = <<>>

\* run() has just started: the handoff state is loaded (empty), and
\* ensurePatrolInstance has either found no patrol molecule or created one.
\* What is in memory is what the state file and the handoff bead hold.
InitRun ==
    /\ SpawnedIssues = <<>>
    /\ MonitoredPolecats = <<>>
    /\ pc = "idle"
    /\ todo = <<>>
    /\ log = <<>>
    /\ pre = NoPre
    /\ hist = [p \in Polecats |-> NoHist]
    /\ inbox = <<>>
    /\ nextId = 1
    /\ now = 0
    /\ issue = [p \in Polecats |-> "open"]
    /\ age = [p \in Polecats |-> Fresh]
    /\ work = [p \in Polecats |-> CleanWork]
    /\ faults = {}
    /\ saved = <<>>
    /\ stopper = NoStop

\* The patrol runs in the process that Start(foreground) of the PID-tracking
\* manager left in the state file; there is no witness tmux session.
InitWitness ==
    /\ InitRun
    /\ Idle
    /\ loop = Patrolling
    /\ disk = [State |-> "running", PID |-> SelfPID]
    /\ wsession = "none"

\* A rig whose two polecats are at work.
Init ==
    /\ InitWitness
    /\ Config = NoAutoSpawn
    /\ worktree = [p \in Polecats |-> p \in Crew]
    /\ session = [p \in Polecats |-> p \in Crew]
    /\ branch = [p \in Polecats |-> p \in Crew]
    /\ \E pid \in {"", "gt-patrol"} :
         handoffState = [WorkerStates |-> EmptyMap, PatrolInstanceID |-> pid,
                         LastPatrol |-> NoTime]
    /\ bead = handoffState

\* A rig where Toast is at work and Rictus has been cleaned up before.
InitMail ==
    /\ InitWitness
    /\ Config = NoAutoSpawn
    /\ worktree = [p \in Polecats |-> p = "Toast"]
    /\ session = [p \in Polecats |-> p = "Toast"]
    /\ branch = [p \in Polecats |-> p = "Toast"]
    /\ handoffState = [WorkerStates |-> EmptyMap, PatrolInstanceID |-> "",
                       LastPatrol |-> NoTime]
    /\ bead = handoffState

(* --------------------------- the environment --------------------------- *)

tick == <<pc, todo, log, pre, hist>>

\* Someone mails the witness.
Deliver ==
    /\ pc = "idle"
    /\ nextId <= MaxMsgs
    /\ \E t \in MessageTemplates :
         inbox' = <<[id |-> nextId, subject |-> t.subject, body |-> t.body]>>
                  \o inbox
    /\ nextId' = nextId + 1
    /\ UNCHANGED <<world, now, witness, tick>>
    /\ UNCHANGED setup

\* A polecat changes what its worktree holds.
Edit ==
    /\ pc = "idle"
    /\ \E p \in Polecats, w \in WorkProfiles :
         /\ worktree[p]
         /\ w # work[p]
         /\ work' = [work EXCEPT ![p] = w]
    /\ UNCHANGED <<worktree, session, branch, issue, age, inbox, nextId, now,
                   witness, tick>>
    /\ UNCHANGED setup

NudgeTags == Cardinality({i \in 1..Len(SpawnedIssues) :
                             SpawnedIssues[i].kind = "nudge"})

\* The "nudge:<name>" entries the health checks of a worker with these file
\* ages will still add.
Owed(p, a) ==
    IF session[p] /\ worktree[p]
       /\ checkPolecatHealth(a.git, a.state, a.latest) = "stuck"
    THEN LET n == getNudgeCount(handoffState.WorkerStates, SpawnedIssues, p)
         IN  IF n < 2 THEN 2 - n ELSE 0
    ELSE 0

RECURSIVE SumOwed(_, _)
SumOwed(ps, ages) ==
    IF ps = <<>> THEN 0
    ELSE Owed(Head(ps), ages[Head(ps)]) + SumOwed(Tail(ps), ages)

\* Time passes over a polecat's files, or the polecat touches them.
Activity ==
    /\ pc = "idle"
    /\ \E p \in Polecats, a \in ActivityProfiles :
         /\ worktree[p]
         /\ a # age[p]
         /\ age' = [age EXCEPT ![p] = a]
         /\ NudgeTags + SumOwed(PolecatOrder, age') <= MaxNudgeTags
    /\ UNCHANGED <<worktree, session, branch, work, issue, inbox, nextId, now,
                   witness, tick>>
    /\ UNCHANGED setup

\* Files that have all reached the threshold.
Quiet == [git |-> StuckThresholdMinutes, state |-> StuckThresholdMinutes,
          latest |-> StuckThresholdMinutes]

\* A polecat falls silent, or picks its work up again.
Stir ==
    /\ Activity
    /\ \A p \in Polecats : age'[p] \in {Fresh, Quiet}

\* The issue a polecat works on is closed.
CloseIssue ==
    /\ pc = "idle"
    /\ \E p \in Polecats :
         /\ worktree[p]
         /\ issue[p] = "open"
         /\ issue' = [issue EXCEPT ![p] = "closed"]
    /\ UNCHANGED <<worktree, session, branch, work, age, inbox, nextId, now,
                   witness, tick>>
    /\ UNCHANGED setup

\* The clock moves on while a polecat is being waited for.
Advance ==
    /\ pc = "idle"
    /\ \E i \in 1..Len(SpawnedIssues) : SpawnedIssues[i].kind = "waiting"
    /\ \E t \in ClockSamples :
         /\ t > now
         /\ now' = t
    /\ UNCHANGED <<world, inbox, nextId, witness, tick>>
    /\ UNCHANGED setup

(* ------------------------------ the tick ------------------------------- *)

RECURSIVE Listed(_)
Listed(ps) ==
    IF ps = <<>> THEN <<>>
    ELSE (IF worktree[Head(ps)] THEN <<Head(ps)>> ELSE <<>>) \o Listed(Tail(ps))

\* polecat.Manager.List(): the polecats that have a directory.
List == Listed(PolecatOrder)

\* What a loop is handed when the listing it starts with returned an error.
ListFailed == <<"!">>
FetchFailed == <<[id |-> 0, subject |-> <<>>, body |-> <<>>]>>

\* polecatMgr.List() and getWitnessMessages() as a phase calls them.
ListPolecats == IF "polecats" \in faults THEN ListFailed ELSE List
FetchInbox == IF "inbox" \in faults THEN FetchFailed ELSE inbox

\* checkAndProcess begins with healthCheck's List().
BeginTick ==
    /\ pc = "idle"
    /\ pc' = "health"
    /\ todo' = ListPolecats
    /\ log' = <<>>
    /\ pre' = [worktree |-> worktree, session |-> session, branch |-> branch,
               work |-> work, inbox |-> inbox, spawned |-> SpawnedIssues]
    /\ UNCHANGED <<world, inbox, nextId, now, witness, hist>>

\* The ticker fires and run() takes the tick at once.
StartTick ==
    /\ BeginTick
    /\ UNCHANGED setup

NextRun(h, status) ==
    IF status = "stuck"
    THEN [run |-> IF h.run < 3 THEN h.run + 1 ELSE 3, last |-> "stuck"]
    ELSE [run |-> 0, last |-> status]

\* Whether `bd show <arm>` and `gt mol bond` are run for p, and what they may
\* answer.
ArmProbes(p) ==
    IF handoffState.PatrolInstanceID # ""
       /\ GetWS(handoffState.WorkerStates, p).ArmID # ""
    THEN BOOLEAN ELSE {TRUE}
BondProbes(p, armExists) ==
    IF handoffState.PatrolInstanceID = ""
       \/ (GetWS(handoffState.WorkerStates, p).ArmID # "" /\ armExists)
    THEN {TRUE} ELSE BOOLEAN

\* Whether ensurePolecatArm bonded an arm, and so wrote the handoff state it
\* had by then to the bead.
ArmBonded(hs, p, armExists, bondOk) ==
    /\ hs.PatrolInstanceID # ""
    /\ ~(GetWS(hs.WorkerStates, p).ArmID # "" /\ armExists)
    /\ bondOk

\* saveState: the Witness in memory, with these spawned issues, replaces the
\* state file.
saveState(spawned) ==
    /\ disk' = Running
    /\ saved' = spawned

\* recordDone, recordWaiting, clearWaiting and the auto-spawn pass save the
\* state when they changed the list.
SaveIfChanged ==
    IF SpawnedIssues' # SpawnedIssues
    THEN saveState(SpawnedIssues')
    ELSE UNCHANGED <<disk, saved>>

\* A handleStuckPolecat that counts only the mail it could send.
handleStuckPolecat_CountsDelivered(hs, p, sendOk) ==
    LET nudgeCount == getNudgeCount(hs.WorkerStates, SpawnedIssues, p)
        act == StuckAction(nudgeCount)
    IN  IF act = "wait" \/ ~sendOk
        THEN /\ handoffState' = hs
             /\ SpawnedIssues' = SpawnedIssues
             /\ log' = <<Ev("observe", p, "stuck", nudgeCount, TRUE, 0)>>
        ELSE /\ handoffState' =
                    [hs EXCEPT !.WorkerStates = recordNudgeHandoff(@, p, now)]
             /\ SpawnedIssues' = recordNudgeLegacy(SpawnedIssues, p)
             /\ log' = <<Ev("observe", p, "stuck", nudgeCount, TRUE, 0),
                         Ev(act, p, "No activity detected", nudgeCount, sendOk, 0)>>

\* handleStuckPolecat for p: the message sent, if any, and the bookkeeping.
handleStuckPolecat(hs, p, sendOk) ==
    LET nudgeCount == getNudgeCount(hs.WorkerStates, SpawnedIssues, p)
        act == StuckAction(nudgeCount)
    IN  IF act = "wait"
        THEN /\ handoffState' = hs
             /\ SpawnedIssues' = SpawnedIssues
             /\ log' = <<Ev("observe", p, "stuck", nudgeCount, TRUE, 0)>>
        ELSE /\ handoffState' =
                    [hs EXCEPT !.WorkerStates = recordNudgeHandoff(@, p, now)]
             /\ SpawnedIssues' = recordNudgeLegacy(SpawnedIssues, p)
             /\ log' = <<Ev("observe", p, "stuck", nudgeCount, TRUE, 0),
                         Ev(act, p, "No activity detected", nudgeCount, sendOk, 0)>>

\* healthCheck: one polecat of the list per step, then w.MonitoredPolecats.
HealthCheck ==
    /\ pc = "health"
    /\ IF todo = ListFailed
       THEN /\ pc' = "drain"
            /\ todo' = FetchInbox
            /\ log' = <<Ev("error", "", "listing polecats", 0, FALSE, 0)>>
            /\ UNCHANGED <<witness, hist, store>>
       ELSE IF todo = <<>>
       THEN /\ MonitoredPolecats' = SelectSeq(List, LAMBDA q : session[q])
            /\ pc' = "drain"
            /\ todo' = FetchInbox
            /\ log' = <<>>
            /\ saveState(SpawnedIssues)
            /\ UNCHANGED <<SpawnedIssues, handoffState, hist, bead>>
       ELSE LET p == Head(todo) IN
            /\ pc' = pc
            /\ todo' = Tail(todo)
            /\ MonitoredPolecats' = MonitoredPolecats
            /\ UNCHANGED <<disk, saved>>
            /\ IF ~session[p]
               THEN /\ hist' = [hist EXCEPT ![p] = NextRun(@, "none")]
                    /\ log' = <<>>
                    /\ UNCHANGED <<SpawnedIssues, handoffState, bead>>
               ELSE \E armExists \in ArmProbes(p) :
                    \E bondOk \in BondProbes(p, armExists) :
                      LET hs == ensurePolecatArm(handoffState, p, armExists, bondOk)
                          status == checkPolecatHealth(age[p].git, age[p].state,
                                                       age[p].latest)
                          nudged == status = "stuck"
                                    /\ StuckAction(getNudgeCount(hs.WorkerStates,
                                                      SpawnedIssues, p)) # "wait"
                      IN  /\ hist' = [hist EXCEPT ![p] = NextRun(@, status)]
                          /\ IF status = "stuck"
                             THEN \E sendOk \in
                                      IF StuckAction(getNudgeCount(hs.WorkerStates,
                                                         SpawnedIssues, p)) = "wait"
                                      THEN {TRUE} ELSE BOOLEAN :
                                    handleStuckPolecat(hs, p, sendOk)
                             ELSE /\ handoffState' =
                                       [hs EXCEPT !.WorkerStates =
                                           updateWorkerActivity(@, p, "", now)]
                                  /\ SpawnedIssues' = SpawnedIssues
                                  /\ log' = <<Ev("observe", p, "healthy",
                                        getNudgeCount(hs.WorkerStates,
                                                      SpawnedIssues, p), TRUE, 0)>>
                          /\ bead' = IF nudged THEN handoffState'
                                     ELSE IF ArmBonded(handoffState, p,
                                                       armExists, bondOk)
                                     THEN hs
                                     ELSE bead
    /\ UNCHANGED <<world, inbox, nextId, now, pre>>
    /\ UNCHANGED <<Config, faults, wsession, control, desk>>

Remove(seq, mid) == SelectSeq(seq, LAMBDA m : m.id # mid)
IsOpen(mid) == \E i \in 1..Len(inbox) : inbox[i].id = mid

IsDoneMsg(m) == HasPrefix(m.subject, "POLECAT_DONE ")
IsLifecycleMsg(m) ==
    Contains(m.subject, "LIFECYCLE:") /\ Contains(m.subject, "shutdown")

\* An ackMessage that never runs `gt mail ack`.
AckMessage_Dropped(m, who, ackOk, before) ==
    /\ inbox' = inbox
    /\ log' = before \o <<Ev("ack", who, "", 0, ackOk, m.id)>>

\* ackMessage: `gt mail ack <id>`; its failure is ignored.
AckMessage(m, who, ackOk, before) ==
    /\ inbox' = IF ackOk THEN Remove(inbox, m.id) ELSE inbox
    /\ log' = before \o <<Ev("ack", who, "", 0, ackOk, m.id)>>

\* Verification, cleanup and acknowledgement, as both message kinds and both
\* branches of processShutdownRequests run them.
VerifyCleanupAck(p, m, spawned) ==
    /\ SpawnedIssues' = spawned
    /\ \E v \in VerifyOutcomes(p) :
         LET r == verifyPolecatState(p, v, m.id) IN
         IF ~r.ok
         THEN /\ \E nudgeOk \in BOOLEAN :
                   log' = r.events \o <<Ev("nudge", p, r.reason, r.n, nudgeOk, m.id)>>
              /\ UNCHANGED <<world, inbox>>
         ELSE \E o \in CleanupOutcomes(p) :
                LET c == cleanupPolecat(p, o, m.id) IN
                /\ ApplyCleanup(p, c)
                /\ IF c.ret = "ok"
                   THEN \E ackOk \in BOOLEAN :
                          AckMessage(m, p, ackOk, r.events \o c.events)
                   ELSE /\ log' = r.events \o c.events
                        /\ inbox' = inbox

\* processShutdownRequests: one message of the fetched inbox per step.
ProcessShutdownRequests ==
    /\ pc = "drain"
    /\ IF todo = FetchFailed
       THEN /\ pc' = "watchdog"
            /\ todo' = ListPolecats
            /\ log' = <<Ev("error", "", "listing inbox", 0, FALSE, 0)>>
            /\ UNCHANGED <<world, inbox, SpawnedIssues>>
       ELSE IF todo = <<>>
       THEN /\ pc' = "watchdog"
            /\ todo' = ListPolecats
            /\ log' = <<>>
            /\ UNCHANGED <<world, inbox, SpawnedIssues>>
       ELSE LET m == Head(todo) IN
            /\ pc' = pc
            /\ todo' = Tail(todo)
            /\ IF IsDoneMsg(m)
               THEN LET p == extractPolecatNameFromDone(m.subject) IN
                    IF p = ""
                    THEN /\ \E ackOk \in BOOLEAN : AckMessage(m, "", ackOk, <<>>)
                         /\ UNCHANGED <<world, SpawnedIssues>>
                    ELSE VerifyCleanupAck(p, m, recordDone(SpawnedIssues, p))
               ELSE IF IsLifecycleMsg(m)
               THEN LET p == extractPolecatName(m.body) IN
                    IF p = ""
                    THEN /\ \E ackOk \in BOOLEAN : AckMessage(m, "", ackOk, <<>>)
                         /\ UNCHANGED <<world, SpawnedIssues>>
                    ELSE IF ~hasSentDone(SpawnedIssues, p)
                    THEN /\ \E nudgeOk \in BOOLEAN :
                              log' = <<Ev("nudge", p,
                                  "Please run 'gt done' to signal completion",
                                  0, nudgeOk, m.id)>>
                         /\ UNCHANGED <<world, inbox, SpawnedIssues>>
                    ELSE VerifyCleanupAck(p, m, SpawnedIssues)
               ELSE /\ log' = <<>>
                    /\ UNCHANGED <<world, inbox, SpawnedIssues>>
    /\ SaveIfChanged
    /\ UNCHANGED <<nextId, now, MonitoredPolecats, handoffState, pre, hist>>
    /\ UNCHANGED <<Config, faults, wsession, bead, control, desk>>

\* A checkAndProcess that runs the auto-spawn pass unasked.
AfterWatchdog_AlwaysSpawns(autoSpawn) == "spawn"

\* checkAndProcess after checkPendingCompletions: if w.Config.AutoSpawn.
AfterWatchdog(autoSpawn) == IF autoSpawn THEN "spawn" ELSE "end"

\* The watchdog's timeout test.
TimedOut(elapsed) == elapsed > PendingCompletionTimeout

\* checkPendingCompletions: one polecat of the list per step; after the last
\* checkAndProcess goes on to the auto-spawn pass when it is configured, and
\* stamps LastPatrol when it is not.
CheckPendingCompletions ==
    /\ pc = "watchdog"
    /\ IF todo = ListFailed \/ todo = <<>>
       THEN /\ pc' = AfterWatchdog(Config.AutoSpawn)
            /\ todo' = <<>>
            /\ log' = IF todo = ListFailed
                      THEN <<Ev("error", "", "listing polecats", 0, FALSE, 0)>>
                      ELSE <<>>
            /\ handoffState' = IF Config.AutoSpawn THEN handoffState
                               ELSE [handoffState EXCEPT !.LastPatrol = now]
            /\ UNCHANGED <<world, SpawnedIssues>>
       ELSE LET p == Head(todo)
                waitingSince == getWaitingTimestamp(SpawnedIssues, p)
            IN
            /\ pc' = pc
            /\ todo' = Tail(todo)
            /\ handoffState' = handoffState
            /\ IF ~session[p] \/ hasSentDone(SpawnedIssues, p)
                  \/ issue[p] # "closed"
               THEN /\ log' = <<>>
                    /\ UNCHANGED <<world, SpawnedIssues>>
               ELSE IF waitingSince = NoTime
               THEN /\ SpawnedIssues' = recordWaiting(SpawnedIssues, p, now)
                    /\ \E nudgeOk \in BOOLEAN :
                         log' = <<Ev("nudge", p, "Your issue is closed", 0,
                                     nudgeOk, 0)>>
                    /\ UNCHANGED world
               ELSE IF TimedOut(now - waitingSince)
               THEN \E v \in VerifyOutcomes(p) :
                      LET r == verifyPolecatState(p, v, 0) IN
                      IF ~r.ok
                      THEN /\ \E sendOk \in BOOLEAN :
                                log' = r.events \o
                                   <<Ev("escalate", p, r.reason, r.n, sendOk, 0)>>
                           /\ UNCHANGED <<world, SpawnedIssues>>
                      ELSE \E o \in CleanupOutcomes(p) :
                             LET c == cleanupPolecat(p, o, 0) IN
                             /\ ApplyCleanup(p, c)
                             /\ log' = r.events \o c.events
                             /\ SpawnedIssues' =
                                   IF c.ret = "ok"
                                   THEN clearWaiting(SpawnedIssues, p)
                                   ELSE SpawnedIssues
               ELSE /\ log' = <<>>
                    /\ UNCHANGED <<world, SpawnedIssues>>
    /\ SaveIfChanged
    /\ UNCHANGED <<inbox, nextId, now, MonitoredPolecats, pre, hist>>
    /\ UNCHANGED <<Config, faults, wsession, bead, control, desk>>

(* ----------------------------- auto-spawn ------------------------------ *)

\* What `bd ready --json` may list: tasks and an epic, in any order, an item
\* more than once included.
ReadyItems ==
    {[id |-> i, type |-> "task"] : i \in {"bd-a", "bd-b", "bd-c"}}
    \cup {[id |-> "bd-e", type |-> "epic"]}
ReadyLists == UNION {[1..n -> ReadyItems] : n \in 0..MaxReady}

\* getActivePolecatCount: the listed polecats whose session runs.
getActivePolecatCount ==
    Cardinality({p \in Polecats : worktree[p] /\ session[p]})

EffectiveMaxWorkers(maxWorkers) ==
    IF maxWorkers <= 0 THEN DefaultMaxWorkers ELSE maxWorkers

isAlreadySpawned(spawned, id) ==
    \E i \in 1..Len(spawned) : spawned[i] = issueKey(id)

\* A filter that forgets spawned_issues.
Spawnable_KeepsSpawned(issues, spawned) ==
    SelectSeq(issues, LAMBDA it : it.type \notin {"merge-request", "epic"})

\* The filter of autoSpawnForReadyWork (EpicID and IssuePrefix are not set).
Spawnable(issues, spawned) ==
    SelectSeq(issues, LAMBDA it : /\ it.type \notin {"merge-request", "epic"}
                                  /\ ~isAlreadySpawned(spawned, it.id))

\* A capacity test that lets one worker too many through.
AtCapacity_OneMore(activeCount, spawned, maxWorkers) ==
    activeCount + spawned > maxWorkers

\* The capacity test at the head of the spawn loop.
AtCapacity(activeCount, spawned, maxWorkers) ==
    activeCount + spawned >= maxWorkers

\* A bookkeeping that records the issue whatever gt spawn answered.
AfterSpawn_AlwaysRecorded(acc, it, ok) ==
    [acc EXCEPT !.n = @ + 1,
                !.ids = Append(@, issueKey(it.id)),
                !.events = Append(@, Ev("spawn", it.id, "", 0, ok, 0))]

\* The loop body after spawnPolecat(issue.ID): a failure is printed and the
\* loop goes on; a success appends the id and counts.
AfterSpawn(acc, it, ok) ==
    IF ok
    THEN [acc EXCEPT !.n = @ + 1,
                     !.ids = Append(@, issueKey(it.id)),
                     !.events = Append(@, Ev("spawn", it.id, "", 0, TRUE, 0))]
    ELSE [acc EXCEPT !.events = Append(@, Ev("spawn", it.id, "", 0, FALSE, 0))]

\* The spawn loop over the spawnable issues from position i on; oks[i] is
\* the answer of gt spawn for the i-th.
RECURSIVE spawnLoop(_, _, _, _, _, _)
spawnLoop(items, oks, i, activeCount, maxWorkers, acc) ==
    IF i > Len(items) \/ AtCapacity(activeCount, acc.n, maxWorkers) THEN acc
    ELSE spawnLoop(items, oks, i + 1, activeCount, maxWorkers,
                   AfterSpawn([acc EXCEPT !.called = @ \cup {i}], items[i], oks[i]))

\* The names gt spawn gives new polecats: the free ones, in order.
FreeNames == SelectSeq(PolecatOrder, LAMBDA q : ~worktree[q])
Hired(k) == {FreeNames[j] : j \in 1..k}

RECURSIVE ReadyEvents(_, _)
ReadyEvents(issues, i) ==
    IF i > Len(issues) THEN <<>>
    ELSE <<Ev("ready", issues[i].id, issues[i].type, i, TRUE, 0)>>
         \o ReadyEvents(issues, i + 1)

\* autoSpawnForReadyWork, the whole pass; then checkAndProcess stamps
\* LastPatrol.
AutoSpawnForReadyWork ==
    /\ pc = "spawn"
    /\ pc' = "end"
    /\ handoffState' = [handoffState EXCEPT !.LastPatrol = now]
    /\ IF "polecats" \in faults
       THEN /\ log' = <<Ev("error", "", "counting polecats", 0, FALSE, 0)>>
            /\ UNCHANGED <<world, SpawnedIssues>>
       ELSE
         LET activeCount == getActivePolecatCount
             maxWorkers == EffectiveMaxWorkers(Config.MaxWorkers)
             head == <<Ev("count", "", "", activeCount, TRUE, 0),
                       Ev("cap", "", "", maxWorkers, TRUE, 0)>>
         IN
         IF activeCount >= maxWorkers
         THEN /\ log' = head
              /\ UNCHANGED <<world, SpawnedIssues>>
         ELSE
           \E readyOk \in BOOLEAN :
             IF ~readyOk
             THEN /\ log' = head \o
                          <<Ev("error", "", "getting ready issues", 0, FALSE, 0)>>
                  /\ UNCHANGED <<world, SpawnedIssues>>
             ELSE
               \E issues \in ReadyLists, oks \in [1..MaxReady -> BOOLEAN] :
                 LET items == Spawnable(issues, SpawnedIssues)
                     r == spawnLoop(items, oks, 1, activeCount, maxWorkers,
                                    [n |-> 0, ids |-> <<>>, events |-> <<>>,
                                     called |-> {}])
                     new == Hired(r.n)
                 IN
                 /\ \A i \in 1..MaxReady : i \notin r.called => oks[i]
                 /\ r.n <= Len(FreeNames)
                 /\ log' = head \o ReadyEvents(issues, 1) \o r.events
                 /\ SpawnedIssues' = SpawnedIssues \o r.ids
                 /\ worktree' = [q \in Polecats |-> worktree[q] \/ q \in new]
                 /\ session' = [q \in Polecats |-> session[q] \/ q \in new]
                 /\ branch' = [q \in Polecats |-> branch[q] \/ q \in new]
                 /\ work' = [q \in Polecats |->
                                IF q \in new THEN CleanWork ELSE work[q]]
                 /\ issue' = [q \in Polecats |->
                                 IF q \in new THEN "open" ELSE issue[q]]
                 /\ age' = [q \in Polecats |->
                               IF q \in new THEN Fresh ELSE age[q]]
    /\ SaveIfChanged
    /\ UNCHANGED <<inbox, nextId, now, MonitoredPolecats, todo, pre, hist>>
    /\ UNCHANGED <<Config, faults, wsession, bead, control, desk>>

\* A listing command starts or stops failing between two ticks.
Fault ==
    /\ pc = "idle"
    /\ \E f \in SUBSET {"polecats", "inbox"} :
         /\ f # faults
         /\ faults' = f
    /\ UNCHANGED <<world, inbox, nextId, now, witness, tick, Config, wsession,
                   store, control, desk>>

\* checkAndProcess has returned; run() waits for the next tick, on the ticker
\* it creates once the initial check is over.
Sleep ==
    /\ pc = "end"
    /\ pc' = "idle"
    /\ log' = <<>>
    /\ pre' = NoPre
    /\ loop' = [loop EXCEPT !.ticker = TRUE]
    /\ UNCHANGED <<world, inbox, nextId, now, witness, todo, hist>>
    /\ UNCHANGED <<Config, faults, wsession, store, stopper, desk>>

(* ---------------------------- the lifecycle ---------------------------- *)

\* The witness state file after a Start and after a Stop.
Started == [State |-> "running", PID |-> 0]
Stopped == [State |-> "stopped", PID |-> 0]

\* A Start that takes any session for a running witness.
Healthy_AnySession(sess) == sess # "none"

\* Start: t.HasSession(sessionID) && t.IsClaudeRunning(sessionID).
Healthy(sess) == sess = "live"

\* A Stop that looks at the state file only.
NotRunning_StateOnly(state, sess) == state # "running"

\* Stop: w.State != StateRunning && !sessionRunning.
NotRunning(state, sess) == state # "running" /\ sess = "none"

\* The step of Start that fails, if any: loadState, KillSession of a zombie,
\* the settings, role config and start command, NewSessionWithCommand,
\* saveState, WaitForCommand.
StartFailures == {"none", "load", "kill", "prepare", "create", "save", "wait"}

\* Whether a Start in this mode, finding this session, gets to the step.
Reaches(foreground, sess, fail) ==
    \/ fail \in {"none", "load"}
    \/ /\ ~Healthy(sess)
       /\ \/ fail = "save"
          \/ ~foreground /\ fail \in {"prepare", "create", "wait"}
          \/ ~foreground /\ fail = "kill" /\ sess # "none"

StartReturn(ret, d, sess, mon, events, mode) ==
    [ret |-> ret, disk |-> d, session |-> sess, monitored |-> mon,
     events |-> events \o <<Ev("start", mode, ret, 0, ret = "ok", 0)>>]

\* Start(foreground, agentOverride, envOverrides): what it returns and leaves
\* behind.  cleanupOk is the result of the best-effort kill after a failed
\* saveState or WaitForCommand.
StartWitness(foreground, fail, cleanupOk) ==
    LET mode    == IF foreground THEN "foreground" ELSE "background"
        same(r) == StartReturn(r, disk, wsession, MonitoredPolecats, <<>>, mode)
        killEv  == IF wsession # "none"
                   THEN <<Ev("killsession", "witness", wsession, 0, TRUE, 0)>>
                   ELSE <<>>
        newEv   == <<Ev("newsession", "witness", "", 0, TRUE, 0)>>
    IN  IF fail = "load" THEN same("load")
        ELSE IF Healthy(wsession) THEN same("already_running")
        ELSE IF foreground
        THEN IF fail = "save" THEN same("save")
             ELSE StartReturn("ok", Started, wsession, List, <<>>, mode)
        ELSE IF fail = "kill"
        THEN StartReturn("kill", disk, wsession, MonitoredPolecats,
                         <<Ev("killsession", "witness", wsession, 0, FALSE, 0)>>,
                         mode)
        ELSE IF fail = "prepare"
        THEN StartReturn("prepare", disk, "none", MonitoredPolecats, killEv, mode)
        ELSE IF fail = "create"
        THEN StartReturn("create", disk, "none", MonitoredPolecats,
                         killEv \o <<Ev("newsession", "witness", "", 0, FALSE, 0)>>,
                         mode)
        ELSE IF fail = "save"
        THEN StartReturn("save", disk, IF cleanupOk THEN "none" ELSE "live",
                         MonitoredPolecats,
                         killEv \o newEv
                         \o <<Ev("killsession", "witness", "new", 0, cleanupOk, 0)>>,
                         mode)
        ELSE IF fail = "wait"
        THEN StartReturn("wait", Started, IF cleanupOk THEN "none" ELSE "zombie",
                         List,
                         killEv \o newEv
                         \o <<Ev("killsession", "witness", "new", 0, cleanupOk, 0)>>,
                         mode)
        ELSE StartReturn("ok", Started, "live", List, killEv \o newEv, mode)

Start ==
    /\ pc = "idle"
    /\ \E foreground \in BOOLEAN, fail \in StartFailures, cleanupOk \in BOOLEAN :
         /\ Reaches(foreground, wsession, fail)
         /\ ~cleanupOk => (~foreground /\ ~Healthy(wsession)
                           /\ fail \in {"save", "wait"})
         /\ LET r == StartWitness(foreground, fail, cleanupOk) IN
            /\ disk' = r.disk
            /\ wsession' = r.session
            /\ MonitoredPolecats' = r.monitored
            /\ log' = r.events
    /\ UNCHANGED <<world, inbox, nextId, now, SpawnedIssues, handoffState, pc,
                   todo, pre, hist, Config, faults, saved, bead, control, desk>>

\* Stop(): what it returns and leaves behind.  The kill of the session is
\* best-effort, its error is dropped.
StopWitness(fail, killOk) ==
    LET killEv == IF wsession # "none"
                  THEN <<Ev("killsession", "witness", wsession, 0, killOk, 0)>>
                  ELSE <<>>
        after  == IF killOk THEN "none" ELSE wsession
    IN  IF fail = "load"
        THEN [ret |-> "load", disk |-> disk, session |-> wsession,
              events |-> <<Ev("stop", "", "load", 0, FALSE, 0)>>]
        ELSE IF NotRunning(disk.State, wsession)
        THEN [ret |-> "not_running", disk |-> disk, session |-> wsession,
              events |-> <<Ev("stop", "", "not_running", 0, FALSE, 0)>>]
        ELSE IF fail = "save"
        THEN [ret |-> "save", disk |-> disk, session |-> after,
              events |-> killEv \o <<Ev("stop", "", "save", 0, FALSE, 0)>>]
        ELSE [ret |-> "ok", disk |-> Stopped, session |-> after,
              events |-> killEv \o <<Ev("stop", "", "ok", 0, TRUE, 0)>>]

Stop ==
    /\ pc = "idle"
    /\ \E fail \in {"none", "load", "save"}, killOk \in BOOLEAN :
         /\ fail = "save" => ~NotRunning(disk.State, wsession)
         /\ ~killOk => (fail # "load" /\ wsession # "none")
         /\ LET r == StopWitness(fail, killOk) IN
            /\ disk' = r.disk
            /\ wsession' = r.session
            /\ log' = r.events
    /\ UNCHANGED <<world, inbox, nextId, now, witness, pc, todo, pre, hist,
                   Config, faults, saved, bead, control, desk>>

\* The agent in the witness session exits; the session stays.
AgentDies ==
    /\ pc = "idle"
    /\ wsession = "live"
    /\ wsession' = "zombie"
    /\ log' = <<>>
    /\ UNCHANGED <<world, inbox, nextId, now, witness, pc, todo, pre, hist,
                   Config, faults, store, control, desk>>

\* The witness session ends without a Stop.
SessionEnds ==
    /\ pc = "idle"
    /\ wsession # "none"
    /\ wsession' = "none"
    /\ log' = <<>>
    /\ UNCHANGED <<world, inbox, nextId, now, witness, pc, todo, pre, hist,
                   Config, faults, store, control, desk>>

(* ------------------- the PID-tracking manager's loop ------------------- *)

\* Ticker periods that elapse in all.
MaxPeriods == 2

\* Starts that find no witness running.
MaxStarts == 2

\* loadState: a missing file is a stopped witness that spawned nothing.
loadState(d, spawned) ==
    IF d = Absent
    THEN [State |-> "stopped", PID |-> 0, SpawnedIssues |-> <<>>]
    ELSE [State |-> d.State, PID |-> d.PID, SpawnedIssues |-> spawned]

\* processExists: the one process the model follows is the one in run().
processExists(pid) == pid = SelfPID /\ loop.proc = "up"

\* loadHandoffState as run() uses it: the state the bead encodes, and the
\* empty state when `bd show` failed.
loadHandoffState(doc, showOk) == IF showOk THEN doc ELSE EmptyHandoff

\* ensurePatrolInstance: the handoff state it leaves in memory and whether it
\* wrote it to the bead.  exists is the answer of `bd show <patrol>`,
\* createOk that of `bd create`.
ensurePatrolInstance(hs, exists, createOk) ==
    IF hs.PatrolInstanceID # "" /\ exists
    THEN [state |-> hs, wrote |-> FALSE]
    ELSE IF createOk
    THEN [state |-> [hs EXCEPT !.PatrolInstanceID = "gt-patrol"], wrote |-> TRUE]
    ELSE [state |-> [hs EXCEPT !.PatrolInstanceID = ""], wrote |-> FALSE]

\* Start(foreground) of the PID-tracking manager, up to run()'s first
\* checkAndProcess; a background Start only writes the state file, under the
\* pid of a command that then exits.
StartPatrol ==
    /\ \E foreground \in BOOLEAN, showOk \in BOOLEAN, exists \in BOOLEAN,
          createOk \in BOOLEAN :
         LET w == loadState(disk, saved)
             hs == loadHandoffState(bead, showOk)
             e == ensurePatrolInstance(hs, exists, createOk)
         IN
         /\ (hs.PatrolInstanceID = "" \/ ~foreground) => exists
         /\ (hs.PatrolInstanceID # "" /\ exists) \/ ~foreground => createOk
         /\ ~foreground => showOk
         /\ IF w.State = "running" /\ w.PID > 0 /\ processExists(w.PID)
            THEN /\ foreground /\ showOk /\ exists /\ createOk
                 /\ log' = <<Ev("start", "", "already_running", 0, FALSE, 0)>>
                 /\ UNCHANGED <<witness, store, loop, pc, todo>>
            ELSE /\ loop.proc = "down"
                 /\ loop.starts < MaxStarts
                 /\ disk' = [State |-> "running",
                             PID |-> IF foreground THEN SelfPID ELSE OtherPID]
                 /\ saved' = w.SpawnedIssues
                 /\ log' = <<Ev("start", "", "ok", 0, foreground, 0)>>
                 /\ IF foreground
                    THEN /\ SpawnedIssues' = w.SpawnedIssues
                         /\ MonitoredPolecats' = List
                         /\ handoffState' = e.state
                         /\ bead' = IF e.wrote THEN e.state ELSE bead
                         /\ loop' = [Down EXCEPT !.proc = "up", !.first = TRUE,
                                                 !.fired = loop.fired,
                                                 !.starts = loop.starts + 1]
                         /\ pc' = "idle"
                         /\ todo' = <<>>
                    ELSE /\ loop' = [loop EXCEPT !.starts = @ + 1]
                         /\ UNCHANGED <<witness, bead, pc, todo>>
    /\ pre' = NoPre
    /\ UNCHANGED <<world, inbox, nextId, now, hist, Config, faults, wsession,
                   stopper, desk>>

\* run(): the initial checkAndProcess, before the ticker exists.
FirstTick ==
    /\ loop.proc = "up"
    /\ loop.first
    /\ BeginTick
    /\ loop' = [loop EXCEPT !.first = FALSE]
    /\ UNCHANGED <<Config, faults, wsession, store, stopper, desk>>

\* A period of the ticker elapses: its channel holds one tick, and a tick
\* that finds the channel full is dropped.
TickerFires ==
    /\ loop.proc = "up"
    /\ loop.ticker
    /\ loop.fired < MaxPeriods
    /\ loop' = [loop EXCEPT !.tick = 1, !.fired = @ + 1]
    /\ UNCHANGED <<world, inbox, nextId, now, witness, tick, Config, faults,
                   wsession, store, stopper, desk>>

\* `for range ticker.C`: run() takes the tick and calls checkAndProcess.
NextTick ==
    /\ loop.proc = "up"
    /\ loop.ticker
    /\ loop.tick = 1
    /\ BeginTick
    /\ loop' = [loop EXCEPT !.tick = 0]
    /\ UNCHANGED <<Config, faults, wsession, store, stopper, desk>>

\* Stop(), its first half: another command reads the state file.
StopLoad ==
    /\ stopper.at = "none"
    /\ LET w == loadState(disk, saved) IN
       stopper' = [at |-> "loaded", disk |-> [State |-> w.State, PID |-> w.PID],
                   saved |-> w.SpawnedIssues]
    /\ UNCHANGED <<world, inbox, nextId, now, witness, tick, Config, faults,
                   wsession, store, loop, desk>>

\* Stop(), its second half: ErrNotRunning, or os.Interrupt to the recorded
\* pid, which is never that of the command Stop runs in, and the stopped
\* state written over the file.  run() installs no
\* handler and has no channel to leave its loop by: the signal ends the
\* process wherever it is.
StopPatrol ==
    /\ stopper.at = "loaded"
    /\ stopper' = NoStop
    /\ IF stopper.disk.State # "running"
       THEN /\ log' = <<Ev("stop", "", "not_running", 0, FALSE, 0)>>
            /\ UNCHANGED <<store, loop, pc, todo, pre>>
       ELSE /\ disk' = [State |-> "stopped", PID |-> 0]
            /\ saved' = stopper.saved
            /\ bead' = bead
            /\ log' = <<Ev("stop", "", "ok", 0, TRUE, 0)>>
            /\ IF stopper.disk.PID > 0 /\ processExists(stopper.disk.PID)
               THEN /\ loop' = [Down EXCEPT !.fired = loop.fired,
                                            !.starts = loop.starts]
                    /\ pc' = "idle"
                    /\ todo' = <<>>
                    /\ pre' = NoPre
               ELSE UNCHANGED <<loop, pc, todo, pre>>
    /\ UNCHANGED <<world, inbox, nextId, now, witness, hist, Config, faults,
                   wsession, desk>>

(* ----------------------- the handoff description ---------------------- *)

\* Longest worker name and longest issue id written to the bead.
MaxText == 2

\* The characters a string value is made of: a letter, and those that matter
\* to the brace scan and to JSON.
TextChars == {"a", "{", "}", "\"", "\\"}

Texts == UNION {[1..n -> TextChars] : n \in 0..MaxText}

\* The handoff states written: no worker, or one worker with its issue and
\* nudge count.
HandoffWrites ==
    {[workers |-> 0, name |-> <<>>, issue |-> <<>>, count |-> 0]} \cup
    {[workers |-> 1, name |-> n, issue |-> i, count |-> c] :
        n \in Texts, i \in Texts, c \in 0..1}

\* encoding/json on a string: quotes around it, a backslash before each
\* double quote and each backslash.
RECURSIVE Escaped(_)
Escaped(text) ==
    IF text = <<>> THEN <<>>
    ELSE (IF Head(text) \in {"\"", "\\"} THEN <<"\\", Head(text)>>
          ELSE <<Head(text)>>) \o Escaped(Tail(text))

Quoted(text) == <<"\"">> \o Escaped(text) \o <<"\"">>

\* json.MarshalIndent(state, "", "  "), as a sequence of characters; a key,
\* a number, null and a run of indentation are one character each.
MarshalIndent(state) ==
    <<"{", "\n  ">> \o Quoted(<<"worker_states">>) \o <<":", " ">> \o
    (IF state.workers = 0 THEN <<"{", "}">>
     ELSE <<"{", "\n    ">> \o Quoted(state.name) \o <<":", " ", "{", "\n      ">>
          \o Quoted(<<"issue">>) \o <<":", " ">> \o Quoted(state.issue)
          \o <<",", "\n      ">>
          \o Quoted(<<"nudge_count">>) \o <<":", " ">>
          \o <<IF state.count = 0 THEN "0" ELSE "1">>
          \o <<"\n    ", "}", "\n  ", "}">>) \o
    <<",", "\n  ">> \o Quoted(<<"last_patrol">>) \o <<":", " ", "null", "\n", "}">>

\* saveHandoffState: the description handed to bd update; "fence" is the
\* three backquotes of a code fence.
Description(state) ==
    <<"Witness handoff state for ", RigName, ".", "\n", "\n", "fence", "json", "\n">>
    \o MarshalIndent(state) \o <<"\n", "fence">>

\* The scan of findMatchingBrace after some characters: how deep it is in
\* braces, whether it is inside a string or after a backslash, and the
\* offset it has returned (-1 while it has returned none).
ScanStart == [depth |-> 0, inString |-> FALSE, escaped |-> FALSE, found |-> 0 - 1]

\* A scan that takes every brace for structure.
BraceStep_NoStrings(st, c, i) ==
    IF st.found >= 0 THEN st
    ELSE IF c = "{" THEN [st EXCEPT !.depth = st.depth + 1]
    ELSE IF c = "}"
    THEN IF st.depth - 1 = 0 THEN [st EXCEPT !.depth = 0, !.found = i]
         ELSE [st EXCEPT !.depth = st.depth - 1]
    ELSE st

\* The body of findMatchingBrace's loop for the character c at offset i.
BraceStep(st, c, i) ==
    IF st.found >= 0 THEN st
    ELSE IF st.escaped THEN [st EXCEPT !.escaped = FALSE]
    ELSE IF c = "\\" /\ st.inString THEN [st EXCEPT !.escaped = TRUE]
    ELSE IF c = "\"" THEN [st EXCEPT !.inString = ~st.inString]
    ELSE IF st.inString THEN st
    ELSE IF c = "{" THEN [st EXCEPT !.depth = st.depth + 1]
    ELSE IF c = "}"
    THEN IF st.depth - 1 = 0 THEN [st EXCEPT !.depth = 0, !.found = i]
         ELSE [st EXCEPT !.depth = st.depth - 1]
    ELSE st

\* The loop over the characters lo..hi, one half after the other; it ends
\* where the offset is returned.
RECURSIVE BraceScan(_, _, _, _)
BraceScan(st, str, lo, hi) ==
    IF lo > hi THEN st
    ELSE IF lo = hi THEN BraceStep(st, str[lo], lo - 1)
    ELSE LET left == BraceScan(st, str, lo, (lo + hi) \div 2) IN
         IF left.found >= 0 THEN left
         ELSE BraceScan(left, str, (lo + hi) \div 2 + 1, hi)

\* findMatchingBrace: the offset (from 0) of the brace that closes the first
\* one, -1 when there is none.
findMatchingBrace(str) == BraceScan(ScanStart, str, 1, Len(str)).found

\* strings.Index(desc, "{"), counting from 0; -1 when there is no brace.
IndexOfBrace(desc) ==
    LET hits == {i \in 1..Len(desc) : desc[i] = "{"}
    IN  IF hits = {} THEN 0 - 1
        ELSE (CHOOSE i \in hits : \A j \in hits : i <= j) - 1

\* The JSON scanner: the text cut into punctuation and strings, white space
\* dropped; a syntax error or a string left open ends the scan with an
\* "error" lexeme.
Lexeme(isString, val) == [str |-> isString, val |-> val]
WhiteSpace == {" ", "\n", "\n  ", "\n    ", "\n      "}

LexStart ==
    [out |-> <<>>, inString |-> FALSE, escaped |-> FALSE, acc |-> <<>>,
     err |-> FALSE]

\* One character more: inside a string it is taken, unescaped, up to the
\* closing quote; outside, a backslash is a syntax error.
LexStep(st, c) ==
    IF st.err THEN st
    ELSE IF st.inString
    THEN IF st.escaped
         THEN [st EXCEPT !.escaped = FALSE, !.acc = Append(st.acc, c)]
         ELSE IF c = "\""
         THEN [st EXCEPT !.inString = FALSE, !.acc = <<>>,
                         !.out = Append(st.out, Lexeme(TRUE, st.acc))]
         ELSE IF c = "\\" THEN [st EXCEPT !.escaped = TRUE]
         ELSE [st EXCEPT !.acc = Append(st.acc, c)]
    ELSE IF c = "\"" THEN [st EXCEPT !.inString = TRUE]
    ELSE IF c \in WhiteSpace THEN st
    ELSE IF c = "\\" THEN [st EXCEPT !.err = TRUE]
    ELSE [st EXCEPT !.out = Append(st.out, Lexeme(FALSE, <<c>>))]

\* The characters lo..hi, one half after the other, up to the first error.
RECURSIVE LexScan(_, _, _, _)
LexScan(st, text, lo, hi) ==
    IF lo > hi THEN st
    ELSE IF lo = hi THEN LexStep(st, text[lo])
    ELSE LET left == LexScan(st, text, lo, (lo + hi) \div 2) IN
         IF left.err THEN left
         ELSE LexScan(left, text, (lo + hi) \div 2 + 1, hi)

Scan(text) ==
    LET st == LexScan(LexStart, text, 1, Len(text)) IN
    IF st.err \/ st.inString THEN Append(st.out, Lexeme(FALSE, <<"error">>))
    ELSE st.out

\* The empty state loadHandoffState falls back to.
NoWorkers == [workers |-> 0, name |-> <<>>, issue |-> <<>>, count |-> 0]

P(c) == Lexeme(FALSE, <<c>>)
K(key) == Lexeme(TRUE, <<key>>)

\* json.Unmarshal into the handoff state: the document's members, as
\* MarshalIndent orders them; anything else does not decode.
Unmarshal(text) ==
    LET lx == Scan(text)
        tail == <<P(","), K("last_patrol"), P(":"), P("null"), P("}")>>
        none == <<P("{"), K("worker_states"), P(":"), P("{"), P("}")>> \o tail
    IN  IF lx = none THEN [ok |-> TRUE, state |-> NoWorkers]
        ELSE IF /\ Len(lx) = 21
                /\ SubSeq(lx, 1, 4) = SubSeq(none, 1, 4)
                /\ lx[5].str
                /\ SubSeq(lx, 6, 9) = <<P(":"), P("{"), K("issue"), P(":")>>
                /\ lx[10].str
                /\ SubSeq(lx, 11, 13) = <<P(","), K("nudge_count"), P(":")>>
                /\ lx[14] \in {P("0"), P("1")}
                /\ SubSeq(lx, 15, 21) = <<P("}"), P("}")>> \o tail
        THEN [ok |-> TRUE,
              state |-> [workers |-> 1, name |-> lx[5].val, issue |-> lx[10].val,
                         count |-> IF lx[14] = P("0") THEN 0 ELSE 1]]
        ELSE [ok |-> FALSE, state |-> NoWorkers]

\* loadHandoffState on the description bd show returned: the slice from
\* the first brace to its match is decoded; with no brace, or none that
\* matches, or a slice that does not decode, the state is empty.
ParseDescription(desc) ==
    LET idx == IndexOfBrace(desc) IN
    IF idx < 0 THEN NoWorkers
    ELSE LET jsonPart == SubSeq(desc, idx + 1, Len(desc))
             endIdx == findMatchingBrace(jsonPart)
         IN  IF endIdx > 0
             THEN LET r == Unmarshal(SubSeq(jsonPart, 1, endIdx + 1))
                  IN  IF r.ok THEN r.state ELSE NoWorkers
             ELSE NoWorkers

\* saveHandoffState writes the description of the state in hand.
SaveHandoff ==
    /\ input \in HandoffWrites
    /\ output = NoResult
    /\ output' = [done |-> FALSE, value |-> Description(input)]
    /\ UNCHANGED <<world, inbox, nextId, now, witness, tick, Config, faults,
                   wsession, store, control, input, fs, mailq>>

\* loadHandoffState reads it back.
LoadHandoff ==
    /\ input \in HandoffWrites
    /\ ~output.done
    /\ output # NoResult
    /\ output' = [done |-> TRUE, value |-> ParseDescription(output.value)]
    /\ UNCHANGED <<world, inbox, nextId, now, witness, tick, Config, faults,
                   wsession, store, control, input, fs, mailq>>

(* ----------------------------- mail addresses ------------------------- *)

\* Longest address string, in pieces.
MaxAddr == 6

\* An address string is a sequence of pieces: a slash or a run of other
\* characters.  Two words side by side are one longer word.
AddrPieces == {"/", "mayor", "crew", "polecats", "Toast"}

Addresses == UNION {[1..n -> AddrPieces] : n \in 0..MaxAddr}

\* strings.Split(address, "/"): the parts between the slashes, empty parts
\* included; one part when there is no slash.
RECURSIVE SplitSlash(_, _)
SplitSlash(address, part) ==
    IF address = <<>> THEN <<part>>
    ELSE IF Head(address) = "/"
    THEN <<part>> \o SplitSlash(Tail(address), <<>>)
    ELSE SplitSlash(Tail(address), Append(part, Head(address)))

\* "rig/crew/name" and "rig/polecats/name" become "rig/name".
Normalized(address) ==
    LET parts == SplitSlash(address, <<>>) IN
    IF Len(parts) = 3 /\ (parts[2] = <<"crew">> \/ parts[2] = <<"polecats">>)
    THEN parts[1] \o <<"/">> \o parts[3]
    ELSE address

\* A canonicalization that strips the slash of the town-level agents too.
addressToIdentity_BareTown(address) ==
    IF address = <<"mayor">> \/ address = <<"mayor", "/">> THEN <<"mayor">>
    ELSE IF address = <<"deacon">> \/ address = <<"deacon", "/">>
    THEN <<"deacon">>
    ELSE IF Len(address) > 0 /\ address[Len(address)] = "/"
    THEN Normalized(SubSeq(address, 1, Len(address) - 1))
    ELSE Normalized(address)

\* addressToIdentity: the town-level agents keep their slash; any other
\* address loses one trailing slash and is normalized.
addressToIdentity(address) ==
    IF address = <<"mayor">> \/ address = <<"mayor", "/">> THEN <<"mayor", "/">>
    ELSE IF address = <<"deacon">> \/ address = <<"deacon", "/">>
    THEN <<"deacon", "/">>
    ELSE IF Len(address) > 0 /\ address[Len(address)] = "/"
    THEN Normalized(SubSeq(address, 1, Len(address) - 1))
    ELSE Normalized(address)

\* identityToAddress: the same without the trimming.
identityToAddress(identity) ==
    IF identity = <<"mayor">> \/ identity = <<"mayor", "/">> THEN <<"mayor", "/">>
    ELSE IF identity = <<"deacon">> \/ identity = <<"deacon", "/">>
    THEN <<"deacon", "/">>
    ELSE Normalized(identity)

\* An address is turned into the identity beads stores.
Canonicalize ==
    /\ input \in Addresses
    /\ ~output.done
    /\ output' = [done |-> TRUE, value |-> addressToIdentity(input)]
    /\ UNCHANGED <<world, inbox, nextId, now, witness, tick, Config, faults,
                   wsession, store, control, input, fs, mailq>>

(* ------------------------- the state file's bytes --------------------- *)

\* The documents saveState writes: the witness running under a PID or
\* stopped, with the issues it has spawned for.
StateDocs ==
    {[State |-> d.State, PID |-> d.PID, SpawnedIssues |-> sp] :
        d \in {Running, [State |-> "running", PID |-> OtherPID],
               [State |-> "stopped", PID |-> 0]},
        sp \in {<<>>, <<"gt-1">>, <<"gt-1", "gt-2">>}}

\* saveState, first half: os.WriteFile opens .runtime/witness.json with
\* O_TRUNC, which empties it.  input holds the document still to be written,
\* fs the file: empty, or one whole document.
WriteFileTruncate ==
    /\ input = <<>>
    /\ \E doc \in StateDocs :
          /\ input' = <<doc>>
          /\ fs' = <<>>
    /\ UNCHANGED <<world, inbox, nextId, now, witness, tick, Config, faults,
                   wsession, store, control, output, mailq>>

\* saveState, second half: the data are written and the file is closed.
WriteFileData ==
    /\ input # <<>>
    /\ fs' = input
    /\ input' = <<>>
    /\ UNCHANGED <<world, inbox, nextId, now, witness, tick, Config, faults,
                   wsession, store, control, output, mailq>>

\* loadState in another process (Status, Stop): os.ReadFile returns what the
\* file holds now; json.Unmarshal fails on anything but a whole document.
ReadStateFile ==
    /\ output' = [done |-> TRUE, value |-> fs]
    /\ UNCHANGED <<world, inbox, nextId, now, witness, tick, Config, faults,
                   wsession, store, control, input, fs, mailq>>

(* --------------------------- queue worker patterns -------------------- *)

\* Longest pattern, longest caller, in pieces, and longest worker list.
MaxPattern == 3
MaxCaller == 3
MaxWorkerList == 2

\* Patterns and callers are strings of pieces: a slash, a star, a word.
PatternPieces == {"/", "*", "a"}

Patterns == UNION {[1..n -> PatternPieces] : n \in 0..MaxPattern}
Callers == UNION {[1..n -> PatternPieces] : n \in 0..MaxCaller}
\* The worker lists of n patterns.
WorkerLists(n) == [1..n -> Patterns]

\* strings.Split(text, sep).
RECURSIVE Split(_, _, _)
Split(text, sep, part) ==
    IF text = <<>> THEN <<part>>
    ELSE IF Head(text) = sep
    THEN <<part>> \o Split(Tail(text), sep, <<>>)
    ELSE Split(Tail(text), sep, Append(part, Head(text)))

IsSuffix(a, b) == Len(a) <= Len(b) /\ SubSeq(b, Len(b) - Len(a) + 1, Len(b)) = a

\* matchWorkerPattern: "true", "false", or "panic" when the slice
\* caller[len(prefix) : len(caller)-len(suffix)] has its end before its
\* start, which aborts the command.
matchWorkerPattern(pattern, caller) ==
    IF pattern = caller THEN "true"
    ELSE IF Contains(pattern, "*")
    THEN LET parts == Split(pattern, "*", <<>>) IN
         IF Len(parts) = 2
         THEN LET prefix == parts[1]
                  suffix == parts[2]
              IN  IF IsPrefix(prefix, caller) /\ IsSuffix(suffix, caller)
                  THEN IF Len(prefix) > Len(caller) - Len(suffix) THEN "panic"
                       ELSE IF ~Contains(SubSeq(caller, Len(prefix) + 1,
                                                Len(caller) - Len(suffix)), "/")
                       THEN "true"
                       ELSE "false"
                  ELSE "false"
         ELSE "false"
    ELSE "false"

\* isEligibleWorker: the patterns are tried in order up to the first match.
RECURSIVE isEligibleWorker(_, _)
isEligibleWorker(caller, patterns) ==
    IF patterns = <<>> THEN "false"
    ELSE LET r == matchWorkerPattern(Head(patterns), caller) IN
         IF r = "false" THEN isEligibleWorker(caller, Tail(patterns)) ELSE r

\* The eligibility check of runMailClaim for one caller and one worker list.
CheckEligible ==
    /\ ~output.done
    /\ output' = [done |-> TRUE,
                  value |-> <<isEligibleWorker(input.caller, input.workers)>>]
    /\ UNCHANGED <<world, inbox, nextId, now, witness, tick, Config, faults,
                   wsession, store, control, input, fs, mailq>>

(* ------------------------------ work queues --------------------------- *)

\* Most commands run against the queue.
MaxCommands == 4

\* Who runs gt mail claim and gt mail release (detectSender).
QueueCallers ==
    {<<"gastown", "/", "Toast">>, <<"gastown", "/", "Nux">>, <<"mayor", "/">>}

\* messaging.json: one queue, open to the workers of the rig.
Queues == [work |-> [Workers |-> << <<"gastown", "/", "*">> >>]]

MessageIds == {"m1", "m2"}

QueueAssignee(name) == <<"queue:", name>>

\* A message as the router stored it: sent to a queue (assignee and label
\* queue:<name>) or to a worker's inbox (no queue label).
SentMail ==
    {[assignee |-> QueueAssignee("work"), status |-> "open", queue |-> "work",
      created |-> t] : t \in 1..2}
    \cup
    {[assignee |-> <<"gastown", "/", "Toast">>, status |-> "open", queue |-> "",
      created |-> t] : t \in 1..2}

NoCommand == [n |-> 0, cmd |-> "", caller |-> <<>>, id |-> "", err |-> ""]

Ran(cmd, caller, id, err) ==
    [n |-> mailq.last.n + 1, cmd |-> cmd, caller |-> caller, id |-> id, err |-> err]

\* listQueueMessages: the open messages assigned to the queue.
listQueueMessages(msgs, queueAssignee) ==
    {id \in MessageIds :
        msgs[id].assignee = queueAssignee /\ msgs[id].status = "open"}

\* The messages that may come first once sorted by creation time.
Oldest(msgs, ids) ==
    {id \in ids : \A other \in ids : msgs[id].created <= msgs[other].created}

claimMessage(msgs, id, claimant) ==
    [msgs EXCEPT ![id].assignee = claimant, ![id].status = "in_progress"]

releaseMessage(msgs, id, queueAssignee) ==
    [msgs EXCEPT ![id].assignee = queueAssignee, ![id].status = "open"]

\* runMailClaim for one caller and one queue name.
MailClaim ==
    /\ mailq.last.n < MaxCommands
    /\ \E caller \in QueueCallers, queueName \in {"work", "nope"} :
          IF queueName \notin DOMAIN Queues
          THEN mailq' = [mailq EXCEPT
                            !.last = Ran("claim", caller, "", "unknown queue")]
          ELSE IF isEligibleWorker(caller, Queues[queueName].Workers) # "true"
          THEN mailq' = [mailq EXCEPT
                            !.last = Ran("claim", caller, "", "not eligible")]
          ELSE LET messages ==
                       listQueueMessages(mailq.msgs, QueueAssignee(queueName))
               IN  IF messages = {}
                   THEN mailq' = [mailq EXCEPT !.last = Ran("claim", caller, "", "")]
                   ELSE \E oldest \in Oldest(mailq.msgs, messages) :
                           mailq' = [mailq EXCEPT
                               !.msgs = claimMessage(mailq.msgs, oldest, caller),
                               !.last = Ran("claim", caller, oldest, "")]
    /\ UNCHANGED <<world, inbox, nextId, now, witness, tick, Config, faults,
                   wsession, store, control, input, output, fs>>

\* A release that does not ask who holds the message.
runMailRelease_AnyCaller(caller, messageID) ==
    IF messageID \notin MessageIds
    THEN [err |-> "message not found", msgs |-> mailq.msgs]
    ELSE LET msgInfo == mailq.msgs[messageID] IN
         IF msgInfo.queue = ""
         THEN [err |-> "not a queue message", msgs |-> mailq.msgs]
         ELSE [err |-> "",
               msgs |-> releaseMessage(mailq.msgs, messageID,
                                       QueueAssignee(msgInfo.queue))]

\* runMailRelease: the error it returns and the messages it leaves.
runMailRelease(caller, messageID) ==
    IF messageID \notin MessageIds
    THEN [err |-> "message not found", msgs |-> mailq.msgs]
    ELSE LET msgInfo == mailq.msgs[messageID] IN
         IF msgInfo.queue = ""
         THEN [err |-> "not a queue message", msgs |-> mailq.msgs]
         ELSE IF msgInfo.assignee # caller
         THEN IF HasPrefix(msgInfo.assignee, "queue:")
              THEN [err |-> "not claimed (still in queue)", msgs |-> mailq.msgs]
              ELSE [err |-> "claimed by another", msgs |-> mailq.msgs]
         ELSE [err |-> "",
               msgs |-> releaseMessage(mailq.msgs, messageID,
                                       QueueAssignee(msgInfo.queue))]

MailRelease ==
    /\ mailq.last.n < MaxCommands
    /\ \E caller \in QueueCallers, messageID \in MessageIds \cup {"m9"} :
          LET r == runMailRelease(caller, messageID) IN
          mailq' = [mailq EXCEPT !.msgs = r.msgs,
                                 !.last = Ran("release", caller, messageID, r.err)]
    /\ UNCHANGED <<world, inbox, nextId, now, witness, tick, Config, faults,
                   wsession, store, control, input, output, fs>>

(* --------------------------- the legacy mailbox ----------------------- *)

\* The messages an inbox file may hold, each with its timestamp.
LegacyIds == {"m1", "m2", "m3"}
Timestamp(id) == CASE id = "m1" -> 1 [] id = "m2" -> 2 [] OTHER -> 3

\* The inbox files: any of the messages, in any order, one per line.
InboxFiles ==
    {f \in UNION {[1..n -> LegacyIds] : n \in 0..Cardinality(LegacyIds)} :
        \A i, j \in 1..Len(f) : i # j => f[i] # f[j]}

\* sort.Slice by Timestamp, oldest first.
RECURSIVE SortByTimestamp(_)
SortByTimestamp(ids) ==
    IF ids = {} THEN <<>>
    ELSE LET first == CHOOSE id \in ids :
                          \A other \in ids : Timestamp(id) <= Timestamp(other)
         IN  <<first>> \o SortByTimestamp(ids \ {first})

\* deleteLegacy's filter: the listed messages without the one deleted.
Filtered(file, id) == {file[i] : i \in 1..Len(file)} \ {id}

NoDelete ==
    [pc |-> "idle", id |-> "", todo |-> <<>>, tmp |-> <<>>, tmpExists |-> FALSE,
     failed |-> FALSE, result |-> ""]

\* deleteLegacy up to os.Create: the inbox is listed; an id that is not in it
\* is message_not_found; otherwise the temp file is created, or the create
\* fails and its error is returned.
DeleteLegacy ==
    /\ fs.pc = "idle"
    /\ fs.result = ""
    /\ \E id \in LegacyIds, createOk \in BOOLEAN :
          IF \A i \in 1..Len(fs.inbox) : fs.inbox[i] # id
          THEN fs' = [fs EXCEPT !.id = id, !.result = "message_not_found"]
          ELSE IF ~createOk
          THEN fs' = [fs EXCEPT !.id = id, !.result = "error"]
          ELSE fs' = [fs EXCEPT !.id = id, !.pc = "writing", !.tmp = <<>>,
                                !.tmpExists = TRUE,
                                !.todo = SortByTimestamp(Filtered(fs.inbox, id))]
    /\ UNCHANGED <<world, inbox, nextId, now, witness, tick, Config, faults,
                   wsession, store, control, input, output, mailq>>

\* rewriteLegacy's loop: one message is written to the temp file; the result
\* of WriteString is dropped, so a write that fails goes unnoticed.
WriteLine ==
    /\ fs.pc = "writing"
    /\ fs.todo # <<>>
    /\ \E writeOk \in BOOLEAN :
          fs' = [fs EXCEPT !.todo = Tail(fs.todo),
                           !.tmp = IF writeOk THEN Append(fs.tmp, Head(fs.todo))
                                   ELSE fs.tmp,
                           !.failed = fs.failed \/ ~writeOk]
    /\ UNCHANGED <<world, inbox, nextId, now, witness, tick, Config, faults,
                   wsession, store, control, input, output, mailq>>

\* file.Close(): on failure the temp file is removed and the error returned.
CloseTmp ==
    /\ fs.pc = "writing"
    /\ fs.todo = <<>>
    /\ \E closeOk \in BOOLEAN :
          IF closeOk THEN fs' = [fs EXCEPT !.pc = "closed"]
          ELSE fs' = [fs EXCEPT !.pc = "idle", !.tmp = <<>>, !.tmpExists = FALSE,
                                !.failed = TRUE, !.result = "error"]
    /\ UNCHANGED <<world, inbox, nextId, now, witness, tick, Config, faults,
                   wsession, store, control, input, output, mailq>>

\* os.Rename(tmpPath, m.path): the temp file becomes the inbox in one step,
\* or the rename fails and its error is returned.
RenameTmp ==
    /\ fs.pc = "closed"
    /\ \E renameOk \in BOOLEAN :
          IF renameOk
          THEN fs' = [fs EXCEPT !.pc = "idle", !.inbox = fs.tmp, !.tmp = <<>>,
                                !.tmpExists = FALSE, !.result = "ok"]
          ELSE fs' = [fs EXCEPT !.pc = "idle", !.failed = TRUE, !.result = "error"]
    /\ UNCHANGED <<world, inbox, nextId, now, witness, tick, Config, faults,
                   wsession, store, control, input, output, mailq>>

\* appendLegacy in another process: the message is written at the end of
\* the inbox file, or the open or the write fails and the error is returned.
AppendLegacy ==
    /\ mailq = <<>>
    /\ \E appendOk \in BOOLEAN :
          IF appendOk
          THEN /\ fs' = [fs EXCEPT !.inbox = Append(@, "m4")]
               /\ mailq' = <<"appended">>
          ELSE /\ fs' = fs
               /\ mailq' = <<"error">>
    /\ UNCHANGED <<world, inbox, nextId, now, witness, tick, Config, faults,
                   wsession, store, control, input, output>>

\* Another process reads the inbox file.
ReadInbox ==
    /\ output' = [done |-> TRUE, value |-> fs.inbox]
    /\ UNCHANGED <<world, inbox, nextId, now, witness, tick, Config, faults,
                   wsession, store, control, input, fs, mailq>>

(* --------------------------- protocol handlers ------------------------ *)

\* AssessHelpRequest: a request is helpable, or it needs escalation.
Assessments ==
    {[CanHelp |-> TRUE, NeedsEscalation |-> FALSE],
     [CanHelp |-> FALSE, NeedsEscalation |-> TRUE]}

\* The HELP messages handled: whether ParseHelp decodes the message, who
\* asks about which issue, how the request is assessed, and whether the
\* router delivers.
HelpInputs ==
    [parses : BOOLEAN, agent : Polecats, issue : {"gt-1", "gt-2"},
     assessment : Assessments, sendOk : BOOLEAN]

NoHandlerResult ==
    [ProtocolType |-> "HELP", Handled |-> FALSE, Action |-> "",
     WispCreated |-> "", MailSent |-> "", Error |-> ""]

\* An escalation sent with the default priority.
escalateToMayor_Normal(payload) ==
    [From |-> <<RigName, "/", "witness">>, To |-> <<"mayor", "/">>,
     Subject |-> <<"Escalation: ", payload.agent, " needs help">>,
     Priority |-> "normal", ID |-> "msg-1"]

\* escalateToMayor: the mail handed to router.Send.
escalateToMayor(payload) ==
    [From |-> <<RigName, "/", "witness">>, To |-> <<"mayor", "/">>,
     Subject |-> <<"Escalation: ", payload.agent, " needs help">>,
     Priority |-> "high", ID |-> "msg-1"]

\* HandleHelp: the result returned; mailq collects what the router sent.
HandleHelp ==
    /\ ~output.done
    /\ IF ~input.parses
       THEN /\ output' = [done |-> TRUE,
                          value |-> <<[NoHandlerResult EXCEPT
                                          !.Error = "parsing HELP"]>>]
            /\ mailq' = mailq
       ELSE IF input.assessment.CanHelp
       THEN /\ output' = [done |-> TRUE,
                          value |-> <<[NoHandlerResult EXCEPT
                                          !.Handled = TRUE, !.Action = "can help"]>>]
            /\ mailq' = mailq
       ELSE IF input.assessment.NeedsEscalation
       THEN IF input.sendOk
            THEN /\ mailq' = Append(mailq, escalateToMayor(input))
                 /\ output' = [done |-> TRUE,
                               value |-> <<[NoHandlerResult EXCEPT
                                               !.Handled = TRUE,
                                               !.MailSent = escalateToMayor(input).ID,
                                               !.Action = "escalated"]>>]
            ELSE /\ mailq' = mailq
                 /\ output' = [done |-> TRUE,
                               value |-> <<[NoHandlerResult EXCEPT
                                               !.Error = "escalating to mayor"]>>]
       ELSE /\ output' = [done |-> TRUE, value |-> <<NoHandlerResult>>]
            /\ mailq' = mailq
    /\ UNCHANGED <<world, inbox, nextId, now, witness, tick, Config, faults,
                   wsession, store, control, input, fs>>

\* The cleanup wisps bd holds, oldest first; the handlers keep them in fs.
MaxWisps == 2
WispStates == {"pending", "merge-requested"}

\* CleanupWispLabels: the labels of the cleanup wisp of a worker.
CleanupWispLabels(polecatName, state) ==
    [polecat |-> polecatName, state |-> state]

WispId(n) == IF n = 1 THEN "gt-wisp-1" ELSE "gt-wisp-2"

ResultOf(proto) == [NoHandlerResult EXCEPT !.ProtocolType = proto]

\* createCleanupWisp: bd create --wisp with the labels of a pending cleanup.
createCleanupWisp(polecatName) ==
    Append(fs, [id |-> WispId(Len(fs) + 1), title |-> <<"cleanup:", polecatName>>,
                labels |-> CleanupWispLabels(polecatName, "pending"),
                status |-> "open"])

\* findCleanupWisp: the first open wisp bd lists for the labels
\* polecat:<name>,state:merge-requested; "" when there is none.
findCleanupWisp(polecatName) ==
    LET found == {i \in 1..Len(fs) :
                     /\ fs[i].status = "open"
                     /\ fs[i].labels.polecat = polecatName
                     /\ fs[i].labels.state = "merge-requested"}
    IN IF found = {} THEN ""
       ELSE fs[CHOOSE i \in found : \A j \in found : i <= j].id

\* What HandlePolecatDone and HandleLifecycleShutdown do alike: a cleanup
\* wisp is created for the worker; a message that does not parse, or a
\* failing bd, is an error.
CreatesWisp(proto, name, parses, bdOk) ==
    IF ~parses
    THEN [wisps |-> fs, result |-> [ResultOf(proto) EXCEPT !.Error = "parsing"]]
    ELSE IF ~bdOk
    THEN [wisps |-> fs,
          result |-> [ResultOf(proto) EXCEPT !.Error = "creating cleanup wisp"]]
    ELSE [wisps |-> createCleanupWisp(name),
          result |-> [ResultOf(proto) EXCEPT
                         !.Handled = TRUE,
                         !.WispCreated = WispId(Len(fs) + 1),
                         !.Action = "created cleanup wisp"]]

HandlePolecatDone ==
    /\ Len(fs) < MaxWisps
    /\ \E name \in Polecats, parses \in BOOLEAN, bdOk \in BOOLEAN :
          LET did == CreatesWisp("POLECAT_DONE", name, parses, bdOk) IN
          /\ fs' = did.wisps
          /\ output' = [done |-> TRUE, value |-> <<did.result>>]
    /\ UNCHANGED <<world, inbox, nextId, now, witness, tick, Config, faults,
                   wsession, store, control, input, mailq>>

HandleLifecycleShutdown ==
    /\ Len(fs) < MaxWisps
    /\ \E name \in Polecats, parses \in BOOLEAN, bdOk \in BOOLEAN :
          LET did == CreatesWisp("LIFECYCLE:Shutdown", name, parses, bdOk) IN
          /\ fs' = did.wisps
          /\ output' = [done |-> TRUE, value |-> <<did.result>>]
    /\ UNCHANGED <<world, inbox, nextId, now, witness, tick, Config, faults,
                   wsession, store, control, input, mailq>>

\* UpdateCleanupWispState: the state label of a wisp is replaced.
UpdateCleanupWispState ==
    /\ \E i \in 1..Len(fs), newState \in WispStates :
          /\ fs[i].labels.state # newState
          /\ fs' = [fs EXCEPT ![i].labels =
                       CleanupWispLabels(fs[i].labels.polecat, newState)]
    /\ UNCHANGED <<world, inbox, nextId, now, witness, tick, Config, faults,
                   wsession, store, control, input, output, mailq>>

\* HandleMerged: the wisp is looked up and the result says what was found.
HandleMerged ==
    /\ \E name \in Polecats, parses \in BOOLEAN, bdOk \in BOOLEAN :
          output' =
              [done |-> TRUE,
               value |->
                  <<IF ~parses
                    THEN [ResultOf("MERGED") EXCEPT !.Error = "parsing MERGED"]
                    ELSE IF ~bdOk
                    THEN [ResultOf("MERGED") EXCEPT
                             !.Error = "finding cleanup wisp"]
                    ELSE IF findCleanupWisp(name) = ""
                    THEN [ResultOf("MERGED") EXCEPT
                             !.Handled = TRUE, !.Action = "no cleanup wisp found"]
                    ELSE [ResultOf("MERGED") EXCEPT
                             !.Handled = TRUE,
                             !.WispCreated = findCleanupWisp(name),
                             !.Action = "found cleanup wisp, ready to nuke"]>>]
    /\ output' # output
    /\ UNCHANGED <<world, inbox, nextId, now, witness, tick, Config, faults,
                   wsession, store, control, input, fs, mailq>>

(* --------------------------- gt install -------------------------------- *)

MaxInstalls == 3

\* The target directory: the files in it, the run that wrote town.json
\* (its CreatedAt), and the runs of gt install so far.
EmptyDir == [files |-> {}, created |-> 0, runs |-> 0]

\* The steps of runInstall that return an error when they fail.
InstallSteps == <<"beads dependency", "mkdir", "mayor", "town.json",
                  "rigs.json", "state.json", "git">>

\* workspace.IsWorkspace: a directory in which an install has gone through
\* is a workspace and an empty one is not; one a failed install left behind
\* may be either.
IsWorkspace(dir) ==
    IF "mayor/town.json" \in dir.files /\ "mayor/rigs.json" \in dir.files
    THEN {TRUE}
    ELSE IF dir.files = {} THEN {FALSE} ELSE BOOLEAN

\* An install that goes on although the directory is a workspace.
AlreadyHQ_Ignored(isWS, installForce) == FALSE

\* The check of runInstall for an existing workspace.
AlreadyHQ(isWS, installForce) == isWS /\ ~installForce

\* What runInstall has written when it stops at step failAt (0: it does not).
Written(dir, flags, failAt) ==
    LET upTo(n) == failAt = 0 \/ failAt > n IN
    [files |->
        dir.files
        \cup (IF upTo(3) THEN {"mayor/"} ELSE {})
        \cup (IF upTo(4) THEN {"mayor/town.json"} ELSE {})
        \cup (IF upTo(5) THEN {"mayor/rigs.json"} ELSE {})
        \cup (IF upTo(6) THEN {"mayor/state.json"} ELSE {})
        \cup (IF upTo(6) /\ flags.claudeOk THEN {"CLAUDE.md"} ELSE {})
        \cup (IF upTo(6) /\ ~flags.installNoBeads /\ flags.beadsOk
              THEN {".beads/"} ELSE {})
        \cup (IF upTo(7) /\ flags.installGit THEN {".git/"} ELSE {}),
     created |-> IF upTo(4) THEN dir.runs + 1 ELSE dir.created,
     runs |-> dir.runs + 1]

InstallFlags ==
    [installForce : BOOLEAN, installNoBeads : BOOLEAN, installGit : BOOLEAN,
     claudeOk : BOOLEAN, beadsOk : BOOLEAN]

\* runInstall: one run of gt install on the directory.
runInstall ==
    /\ fs.runs < MaxInstalls
    /\ \E flags \in InstallFlags, isWS \in IsWorkspace(fs), failAt \in 0..7 :
          /\ failAt = 1 => ~flags.installNoBeads
          /\ failAt = 7 => flags.installGit
          /\ IF AlreadyHQ(isWS, flags.installForce)
             THEN /\ fs' = [fs EXCEPT !.runs = @ + 1]
                  /\ output' = [done |-> TRUE,
                                value |-> <<"directory is already a Gas Town HQ",
                                            flags.installForce, isWS>>]
             ELSE /\ fs' = IF failAt = 1
                           THEN [fs EXCEPT !.runs = @ + 1]
                           ELSE Written(fs, flags, failAt)
                  /\ output' = [done |-> TRUE,
                                value |-> <<IF failAt = 0 THEN "nil"
                                            ELSE InstallSteps[failAt],
                                            flags.installForce, isWS>>]
    /\ UNCHANGED <<world, inbox, nextId, now, witness, tick, Config, faults,
                   wsession, store, control, input, mailq>>

(* --------------------------- the scratch list ------------------------- *)

MaxEntries == 3

\* Workers of which one name begins with another's.
Namesakes == {"Joe", "Joey"}

\* The entries a spawned_issues list is made of here.
ScratchEntries ==
    {issueKey("gt-1")}
    \cup {nudgeKey(n) : n \in Namesakes}
    \cup {doneKey(n) : n \in Namesakes}
    \cup {Tag("waiting", n, t) : n \in Namesakes, t \in {0, 1}}

\* clearWaiting is called for the worker on the list, as after a forced
\* cleanup.
ClearWaiting ==
    /\ ~output.done
    /\ output' = [done |-> TRUE, value |-> clearWaiting(input.spawned, input.name)]
    /\ UNCHANGED <<world, inbox, nextId, now, witness, tick, Config, faults,
                   wsession, store, control, input, fs, mailq>>

(* --------------------------- two claimants ---------------------------- *)

\* Two eligible workers run gt mail claim work, each in its own process.
Claimants == {<<"gastown", "/", "Toast">>, <<"gastown", "/", "Nux">>}

\* Where a claimant's runMailClaim stands and the message it picked.
NotStarted == [at |-> "start", oldest |-> "", err |-> ""]

\* runMailClaim up to the choice of the oldest message: the eligibility check
\* and bd list.
ClaimList ==
    /\ \E caller \in Claimants :
          /\ input[caller].at = "start"
          /\ isEligibleWorker(caller, Queues.work.Workers) = "true"
          /\ LET messages == listQueueMessages(mailq.msgs, QueueAssignee("work"))
             IN  IF messages = {}
                 THEN input' = [input EXCEPT ![caller].at = "nothing to claim"]
                 ELSE \E oldest \in Oldest(mailq.msgs, messages) :
                         input' = [input EXCEPT ![caller].at = "listed",
                                                ![caller].oldest = oldest]
    /\ UNCHANGED <<world, inbox, nextId, now, witness, tick, Config, faults,
                   wsession, store, control, output, fs, mailq>>

\* runMailClaim from claimMessage on: bd update sets assignee and status, and
\* the command reports the claim, or the error of bd.
ClaimUpdate ==
    /\ \E caller \in Claimants, bdOk \in BOOLEAN :
          /\ input[caller].at = "listed"
          /\ IF bdOk
             THEN /\ mailq' = [mailq EXCEPT
                        !.msgs = claimMessage(mailq.msgs, input[caller].oldest,
                                              caller)]
                  /\ input' = [input EXCEPT ![caller].at = "claimed"]
             ELSE /\ mailq' = mailq
                  /\ input' = [input EXCEPT ![caller].at = "failed",
                                            ![caller].err = "claiming message"]
    /\ UNCHANGED <<world, inbox, nextId, now, witness, tick, Config, faults,
                   wsession, store, control, output, fs>>

(* --------------------------- gt costs digest -------------------------- *)

\* The wisps: session.ended events of the target day, one of another day,
\* and an event of another kind.
CostWisps ==
    [s1 |-> [EventKind |-> "session.ended", day |-> "target"],
     s2 |-> [EventKind |-> "session.ended", day |-> "target"],
     s3 |-> [EventKind |-> "session.ended", day |-> "other"],
     e1 |-> [EventKind |-> "session.started", day |-> "target"]]

\* The filter of querySessionCostWisps and deleteSessionCostWisps: the
\* session.ended events that ended on the target day.
SessionCostWisps(wisps) ==
    {id \in wisps : /\ CostWisps[id].EventKind = "session.ended"
                    /\ CostWisps[id].day = "target"}

NoDigest ==
    [at |-> "start", digestDryRun |-> FALSE, wisps |-> {}, bead |-> {},
     created |-> FALSE, ret |-> ""]

\* A session ends and its cost is recorded as a wisp, at any time.
RecordSessionCost ==
    /\ \E id \in DOMAIN CostWisps :
          /\ id \notin fs.store
          /\ fs' = [fs EXCEPT !.store = @ \cup {id}]
    /\ UNCHANGED <<world, inbox, nextId, now, witness, tick, Config, faults,
                   wsession, store, control, input, output, mailq>>

\* runCostsDigest up to the digest it has built: the wisps are queried; with
\* none found, or in a dry run, the command returns.
QueryWisps ==
    /\ fs.at = "start"
    /\ \E digestDryRun \in BOOLEAN, listOk \in BOOLEAN, showOk \in BOOLEAN :
          LET wisps == IF listOk THEN SessionCostWisps(fs.store) ELSE {} IN
          IF listOk /\ fs.store # {} /\ ~showOk
          THEN fs' = [fs EXCEPT !.at = "returned", !.ret = "showing wisps",
                                !.digestDryRun = digestDryRun]
          ELSE IF wisps = {}
          THEN fs' = [fs EXCEPT !.at = "returned", !.ret = "nil",
                                !.digestDryRun = digestDryRun]
          ELSE IF digestDryRun
          THEN fs' = [fs EXCEPT !.at = "returned", !.ret = "nil",
                                !.wisps = wisps, !.digestDryRun = TRUE]
          ELSE fs' = [fs EXCEPT !.at = "built", !.wisps = wisps]
    /\ UNCHANGED <<world, inbox, nextId, now, witness, tick, Config, faults,
                   wsession, store, control, input, output, mailq>>

\* createCostDigestBead: the permanent bead holds the sessions queried.
CreateDigestBead ==
    /\ fs.at = "built"
    /\ \E createOk \in BOOLEAN :
          IF createOk
          THEN fs' = [fs EXCEPT !.at = "created", !.bead = fs.wisps,
                                !.created = TRUE]
          ELSE fs' = [fs EXCEPT !.at = "returned", !.ret = "creating digest bead"]
    /\ UNCHANGED <<world, inbox, nextId, now, witness, tick, Config, faults,
                   wsession, store, control, input, output, mailq>>

\* deleteSessionCostWisps: the wisps are listed again, each is shown, and
\* those that pass the filter are burned in one call; a failure is a warning.
DeleteWisps ==
    /\ fs.at = "created"
    /\ \E listOk \in BOOLEAN, burnOk \in BOOLEAN, shown \in SUBSET fs.store :
          LET wispIDsToDelete == IF listOk THEN SessionCostWisps(shown) ELSE {} IN
          /\ ~listOk => shown = {}
          /\ ~burnOk => wispIDsToDelete # {}
          /\ fs' = [fs EXCEPT !.at = "returned", !.ret = "nil",
                              !.store = IF burnOk THEN @ \ wispIDsToDelete ELSE @]
    /\ UNCHANGED <<world, inbox, nextId, now, witness, tick, Config, faults,
                   wsession, store, control, input, output, mailq>>

(* --------------------------- specifications ---------------------------- *)

\* Everything together.
Next ==
    \/ Fault
    \/ Deliver
    \/ Edit
    \/ Activity
    \/ CloseIssue
    \/ Advance
    \/ StartTick
    \/ HealthCheck
    \/ ProcessShutdownRequests
    \/ CheckPendingCompletions
    \/ AutoSpawnForReadyWork
    \/ Sleep
    \/ Start
    \/ Stop
    \/ AgentDies
    \/ SessionEnds

Spec == Init /\ [][Next]_vars

\* The patrol over polecats that go quiet and come back; nobody mails the
\* witness and no issue is closed.
NextPatrol ==
    \/ Activity
    \/ StartTick
    \/ HealthCheck
    \/ ProcessShutdownRequests
    \/ CheckPendingCompletions
    \/ Sleep

SpecPatrol == Init /\ [][NextPatrol]_vars

\* The mailbox: polecats that stay active, change their worktrees and mail
\* the witness.
NextMail ==
    \/ Deliver
    \/ Edit
    \/ StartTick
    \/ HealthCheck
    \/ ProcessShutdownRequests
    \/ CheckPendingCompletions
    \/ Sleep

SpecMail == InitMail /\ [][NextMail]_vars

\* The watchdog: issues are closed while their polecats keep running, and the
\* clock moves on.
NextWatchdog ==
    \/ CloseIssue
    \/ Advance
    \/ Edit
    \/ StartTick
    \/ HealthCheck
    \/ ProcessShutdownRequests
    \/ CheckPendingCompletions
    \/ Sleep

\* The watchdog keeps no arms: no patrol molecule could be created.
InitWatchdog == Init /\ handoffState.PatrolInstanceID = ""

SpecWatchdog == InitWatchdog /\ [][NextWatchdog]_vars

\* Auto-spawn: a rig with some polecats at work, one of them perhaps without
\* a session, and a configuration; listing commands come and go.
ActiveAtStart == {{}, {"Rictus"}, {"Rictus", "Toast"}, {"Rictus", "Toast", "Nux"},
                  Polecats}
InitSpawn ==
    /\ InitWitness
    /\ \E a \in ActiveAtStart, idle \in SUBSET {"Rictus"} :
         /\ worktree = [p \in Polecats |-> p \in a]
         /\ session = [p \in Polecats |-> p \in a \ idle]
         /\ branch = [p \in Polecats |-> p \in a]
    /\ \E auto \in BOOLEAN, m \in {0, 1, 3} :
         Config = [AutoSpawn |-> auto, MaxWorkers |-> m]
    /\ handoffState = [WorkerStates |-> EmptyMap, PatrolInstanceID |-> "",
                       LastPatrol |-> NoTime]
    /\ bead = handoffState

NextSpawn ==
    \/ Fault
    \/ StartTick
    \/ HealthCheck
    \/ ProcessShutdownRequests
    \/ CheckPendingCompletions
    \/ AutoSpawnForReadyWork
    \/ Sleep

SpecSpawn == InitSpawn /\ [][NextSpawn]_vars

\* The lifecycle: a rig with some polecats, a state file that is missing
\* (stopped), left by a Start, or left by the PID-tracking manager, and a
\* witness session in any condition.
InitLifecycle ==
    /\ InitRun
    /\ Idle
    /\ Config = NoAutoSpawn
    /\ \E a \in ActiveAtStart :
         /\ worktree = [p \in Polecats |-> p \in a]
         /\ session = [p \in Polecats |-> p \in a]
         /\ branch = [p \in Polecats |-> p \in a]
    /\ handoffState = [WorkerStates |-> EmptyMap, PatrolInstanceID |-> "",
                       LastPatrol |-> NoTime]
    /\ bead = handoffState
    /\ disk \in {Stopped, Started, [State |-> "running", PID |-> OtherPID]}
    /\ loop = Down
    /\ wsession \in {"none", "live", "zombie"}

NextLifecycle ==
    \/ Start
    \/ Stop
    \/ AgentDies
    \/ SessionEnds

SpecLifecycle == InitLifecycle /\ [][NextLifecycle]_vars

\* The PID-tracking manager from before its first Start: no state file, a
\* fresh handoff bead, a rig where Toast is at work and goes quiet at times.
InitLoop ==
    /\ InitRun
    /\ Idle
    /\ Config = NoAutoSpawn
    /\ worktree = [p \in Polecats |-> p = "Toast"]
    /\ session = [p \in Polecats |-> p = "Toast"]
    /\ branch = [p \in Polecats |-> p = "Toast"]
    /\ handoffState = EmptyHandoff
    /\ bead = EmptyHandoff
    /\ disk = Absent
    /\ wsession = "none"
    /\ loop = Down

NextLoop ==
    \/ Stir
    \/ StartPatrol
    \/ StopLoad
    \/ StopPatrol
    \/ FirstTick
    \/ TickerFires
    \/ NextTick
    \/ HealthCheck
    \/ ProcessShutdownRequests
    \/ CheckPendingCompletions
    \/ Sleep

SpecLoop == InitLoop /\ [][NextLoop]_vars

\* Nothing runs: no witness, no worker, no state file.
Parked ==
    /\ InitRun
    /\ Config = NoAutoSpawn
    /\ worktree = [p \in Polecats |-> FALSE]
    /\ session = [p \in Polecats |-> FALSE]
    /\ branch = [p \in Polecats |-> FALSE]
    /\ handoffState = EmptyHandoff
    /\ bead = EmptyHandoff
    /\ disk = Absent
    /\ wsession = "none"
    /\ loop = Down

\* A handoff state is written to the bead and read back.
InitCodec ==
    /\ Parked
    /\ input \in HandoffWrites
    /\ output = NoResult
    /\ fs = <<>>
    /\ mailq = <<>>

NextCodec ==
    \/ SaveHandoff
    \/ LoadHandoff

SpecCodec == InitCodec /\ [][NextCodec]_vars

\* An address string is canonicalized.
InitAddress ==
    /\ Parked
    /\ input \in Addresses
    /\ output = NoResult
    /\ fs = <<>>
    /\ mailq = <<>>

NextAddress == Canonicalize

SpecAddress == InitAddress /\ [][NextAddress]_vars

\* The state file exists; one process saves it while another reads it.
InitStateFile ==
    /\ Parked
    /\ input = <<>>
    /\ output = NoResult
    /\ fs \in {<<doc>> : doc \in StateDocs}
    /\ mailq = <<>>

NextStateFile ==
    \/ WriteFileTruncate
    \/ WriteFileData
    \/ ReadStateFile

SpecStateFile == InitStateFile /\ [][NextStateFile]_vars

\* A caller is checked against a queue's worker list.
InitEligible ==
    /\ Parked
    /\ \E n \in 1..MaxWorkerList :
          input \in [caller : Callers, workers : WorkerLists(n)]
    /\ output = NoResult
    /\ fs = <<>>
    /\ mailq = <<>>

NextEligible == CheckEligible

SpecEligible == InitEligible /\ [][NextEligible]_vars

\* Mail has been sent; workers claim from the queue and release.
InitQueue ==
    /\ Parked
    /\ input = <<>>
    /\ output = NoResult
    /\ fs = <<>>
    /\ \E sent \in [MessageIds -> SentMail] :
          mailq = [msgs |-> sent, sent |-> sent, last |-> NoCommand]

NextQueue ==
    \/ MailClaim
    \/ MailRelease

SpecQueue == InitQueue /\ [][NextQueue]_vars

\* One message is deleted from a legacy inbox while a reader looks on; input
\* keeps the file as it was before.
InitLegacy ==
    /\ Parked
    /\ input \in InboxFiles
    /\ output = NoResult
    /\ fs = NoDelete @@ [inbox |-> input]
    /\ mailq = <<>>

NextLegacy ==
    \/ DeleteLegacy
    \/ WriteLine
    \/ CloseTmp
    \/ RenameTmp
    \/ ReadInbox

SpecLegacy == InitLegacy /\ [][NextLegacy]_vars

\* One HELP message is handled.
InitHelp ==
    /\ Parked
    /\ input \in HelpInputs
    /\ output = NoResult
    /\ fs = <<>>
    /\ mailq = <<>>

NextHelp == HandleHelp

SpecHelp == InitHelp /\ [][NextHelp]_vars

\* The witness handles completion, shutdown and merge messages.
InitMerged ==
    /\ Parked
    /\ Idle

NextMerged ==
    \/ HandlePolecatDone
    \/ HandleLifecycleShutdown
    \/ UpdateCleanupWispState
    \/ HandleMerged

SpecMerged == InitMerged /\ [][NextMerged]_vars

\* gt install is run again and again on one directory.
InitInstall ==
    /\ Parked
    /\ input = <<>>
    /\ output = NoResult
    /\ fs = EmptyDir
    /\ mailq = <<>>

NextInstall == runInstall

SpecInstall == InitInstall /\ [][NextInstall]_vars

\* clearWaiting on every short list of entries.
InitScratch ==
    /\ Parked
    /\ \E n \in 0..MaxEntries, l \in [1..MaxEntries -> ScratchEntries],
          w \in Namesakes :
          input = [spawned |-> SubSeq(l, 1, n), name |-> w]
    /\ output = NoResult
    /\ fs = <<>>
    /\ mailq = <<>>

NextScratch == ClearWaiting

SpecScratch == InitScratch /\ [][NextScratch]_vars

\* Two claimants at one queue.
InitClaimants ==
    /\ Parked
    /\ input = [caller \in Claimants |-> NotStarted]
    /\ output = NoResult
    /\ fs = <<>>
    /\ \E sent \in [MessageIds -> SentMail] :
          mailq = [msgs |-> sent, sent |-> sent, last |-> NoCommand]

NextClaimants ==
    \/ ClaimList
    \/ ClaimUpdate

SpecClaimants == InitClaimants /\ [][NextClaimants]_vars

\* A legacy delete while another process appends a message.
NextAppend ==
    \/ DeleteLegacy
    \/ WriteLine
    \/ CloseTmp
    \/ RenameTmp
    \/ AppendLegacy

SpecAppend == InitLegacy /\ [][NextAppend]_vars

\* One gt costs digest while sessions end.
InitDigest ==
    /\ Parked
    /\ input = <<>>
    /\ output = NoResult
    /\ \E present \in SUBSET (DOMAIN CostWisps) :
          fs = NoDigest @@ [store |-> present]
    /\ mailq = <<>>

NextDigest ==
    \/ RecordSessionCost
    \/ QueryWisps
    \/ CreateDigestBead
    \/ DeleteWisps

SpecDigest == InitDigest /\ [][NextDigest]_vars

\* The mailbox under a ticker that keeps firing and whose ticks run to their
\* end.  Drains is the weak fairness of ProcessShutdownRequests written out,
\* with ENABLED <<ProcessShutdownRequests>>_vars replaced by its equal,
\* pc = "drain".
Drains == []<>(pc # "drain") \/ []<><<ProcessShutdownRequests>>_vars

SpecMailFair ==
    /\ SpecMail
    /\ WF_vars(StartTick)
    /\ WF_vars(HealthCheck)
    /\ Drains
    /\ WF_vars(CheckPendingCompletions)
    /\ WF_vars(Sleep)

(* ------------------------------ properties ----------------------------- *)

Range(seq) == {seq[i] : i \in 1..Len(seq)}

\* The places of an operation in the record of the last step.
Events(op) == {i \in 1..Len(log) : log[i].op = op}
Pos(op) == IF Events(op) = {} THEN 0 ELSE CHOOSE i \in Events(op) : TRUE
Sent(op, p) == Cardinality({i \in Events(op) : log[i].who = p})

\* The inbox message the last step handled (0: none), as the tick found it.
Handled == IF pc = "drain" /\ log # <<>> THEN log[1].msg ELSE 0
Message(id) == CHOOSE m \in Range(pre.inbox) : m.id = id

DoneFor(m, p) == IsDoneMsg(m) /\ extractPolecatNameFromDone(m.subject) = p
LifecycleFor(m, p) ==
    ~IsDoneMsg(m) /\ IsLifecycleMsg(m) /\ extractPolecatName(m.body) = p
DoneTag(p) ==
    \E i \in 1..Len(SpawnedIssues) :
        SpawnedIssues[i] = [kind |-> "done", name |-> p, ts |-> NoTime]

Destructive == {"kill", "remove", "delbranch"}

\* C1: no session is killed, no worktree removed and no branch deleted unless
\* the cleaner's uncommitted-work check came first in the same invocation and
\* found modified = 0, untracked = 0, stash = 0 and unpushed = 0 (or found no
\* worktree at all, where there is nothing to observe).
CleanObservedBeforeDestruction ==
    \A i \in 1..Len(log) :
        log[i].op \in Destructive =>
            \E j \in 1..(i - 1) :
                /\ log[j].op = "check"
                /\ log[j].who = log[i].who
                /\ log[j].arg \in {"clean", "nodir"}

\* C1, the case reached: a worktree that held a stash when the tick began has
\* been removed.
StashDestroyed ==
    \E i \in Events("remove") :
        log[i].arg = "ok" /\ pre.work[log[i].who].stash > 0

\* Why the handling of a worker's message stopped short of destroying
\* anything: the verification or the cleaner found unsaved work.
RefusedForSafety(p) ==
    \E i \in 1..Len(log) :
        /\ log[i].who = p
        /\ \/ log[i].op = "status" /\ log[i].arg = "dirty"
           \/ log[i].op = "pushcheck" /\ log[i].arg = "unpushed"
           \/ log[i].op = "check" /\ log[i].arg = "dirty"

\* C2: when the handling of POLECAT_DONE <name> stops because of modified or
\* untracked files, a stash or unpushed commits, the worker's session,
\* worktree and branch are as the tick found them, the message is still
\* open, and a NUDGE that states a reason has been sent to the worker.
DoneAbortKeepsAndNudges ==
    \A p \in Polecats :
        (Handled # 0 /\ DoneFor(Message(Handled), p) /\ RefusedForSafety(p)) =>
            /\ session[p] = pre.session[p]
            /\ worktree[p]
            /\ branch[p] = pre.branch[p]
            /\ IsOpen(Handled)
            /\ \E i \in Events("nudge") :
                  log[i].who = p /\ log[i].msg = Handled /\ log[i].arg # ""

\* C2, the case reached: the cleaner refused a worker because of its stash.
StashRefused ==
    \E p \in Polecats :
        /\ Handled # 0
        /\ DoneFor(Message(Handled), p)
        /\ work[p].stash > 0
        /\ \E i \in Events("check") : log[i].arg = "dirty"

NudgeCountOf(p) == GetWS(handoffState.WorkerStates, p).NudgeCount

\* The last step was the health check's observation of p.
Observed(p, status) ==
    /\ pc = "health"
    /\ log # <<>>
    /\ log[1].op = "observe"
    /\ log[1].who = p
    /\ log[1].arg = status

\* C3: of consecutive stuck observations of a worker whose count was 0, the
\* first sends one NUDGE and no escalation and leaves the count at 1, the
\* second sends one escalation and no NUDGE and leaves it at 2, and every
\* later one sends nothing.
StuckLadder ==
    \A p \in Polecats :
        Observed(p, "stuck") =>
            /\ hist[p].run = 1 =>
                  /\ log[1].n = 0
                  /\ Sent("nudge", p) = 1 /\ Sent("escalate", p) = 0
                  /\ NudgeCountOf(p) = 1
            /\ hist[p].run = 2 =>
                  /\ log[1].n = 1
                  /\ Sent("nudge", p) = 0 /\ Sent("escalate", p) = 1
                  /\ NudgeCountOf(p) = 2
            /\ hist[p].run = 3 =>
                  /\ Len(log) = 1
                  /\ NudgeCountOf(p) = 2

\* C3, the case reached: a third consecutive stuck observation.
ThirdStuckObservation ==
    \E p \in Polecats : Observed(p, "stuck") /\ hist[p].run = 3

\* What one stuck observation of p did: a NUDGE with the count then 1, an
\* escalation with the count then 2, or nothing with the count in idle.
OneOfThree(p, idle) ==
    \/ Sent("nudge", p) = 1 /\ Sent("escalate", p) = 0 /\ NudgeCountOf(p) = 1
    \/ Sent("nudge", p) = 0 /\ Sent("escalate", p) = 1 /\ NudgeCountOf(p) = 2
    \/ Sent("nudge", p) = 0 /\ Sent("escalate", p) = 0 /\ NudgeCountOf(p) \in idle

\* C4, as amended: a stuck observation of a worker does exactly one of:
\* send a NUDGE, the count then 1; send an escalation, the count then 2; send
\* nothing, the count staying 2.  Never a NUDGE and an escalation together.
StuckActionOneOfThree ==
    \A p \in Polecats : Observed(p, "stuck") => OneOfThree(p, {2})

\* C4, as stated: the observation that sends nothing has a count of at least 3.
StuckActionOneOfThreeFromThree ==
    \A p \in Polecats :
        Observed(p, "stuck") => OneOfThree(p, 3..(MaxNudgeTags + 3))

\* C4, the case reached: a stuck observation that sent nothing.
StuckAndSilent ==
    \E p \in Polecats :
        Observed(p, "stuck") /\ Len(log) = 1 /\ NudgeCountOf(p) = 2

Estate(p) == <<session[p], worktree[p], branch[p], work[p]>>

Undecodable(m) ==
    \/ IsDoneMsg(m) /\ extractPolecatNameFromDone(m.subject) = ""
    \/ ~IsDoneMsg(m) /\ IsLifecycleMsg(m) /\ extractPolecatName(m.body) = ""

\* C7: a POLECAT_DONE or lifecycle shutdown message from which no worker
\* name can be extracted is still open while and after the tick that found
\* it in the inbox runs.
UndecodableStaysOpen ==
    pc # "idle" =>
        \A m \in Range(pre.inbox) : Undecodable(m) => IsOpen(m.id)

\* C7, the case reached: the drain acknowledged a message that names nobody.
UndecodableAcked ==
    \E i \in Events("ack") : log[i].who = "" /\ log[i].ok /\ ~IsOpen(log[i].msg)

\* No subprocess of the last step failed.
NoCommandFailed ==
    \A i \in 1..Len(log) :
        log[i].op \in {"status", "pushcheck", "check", "kill", "remove",
                       "delbranch", "ack"} => log[i].ok

\* The last step handled POLECAT_DONE <p> for a worker whose worktree was
\* there, and every command it ran succeeded.
HandledDoneOf(p) ==
    /\ Handled # 0
    /\ DoneFor(Message(Handled), p)
    /\ Events("status") # {}
    /\ NoCommandFailed

Gone(p) == ~session[p] /\ ~worktree[p] /\ ~branch[p]

\* An acknowledgement of a worker's message comes after the cleaner's nil.
AckAfterSuccess ==
    \A i \in Events("ack") :
        log[i].who # "" =>
            \E j \in 1..(i - 1) :
                /\ log[j].op = "cleanup"
                /\ log[j].arg = "ok"
                /\ log[j].msg = log[i].msg

\* What is gone stays gone and what is closed stays closed.
StaysCleaned ==
    /\ \A p \in Polecats :
          /\ ~session[p] => ~session'[p]
          /\ ~worktree[p] => ~worktree'[p]
          /\ ~branch[p] => ~branch'[p]
    /\ \A id \in 1..(nextId - 1) : ~IsOpen(id) => ~IsOpen(id)'

OpenDone(id, p) ==
    \E i \in 1..Len(inbox) : inbox[i].id = id /\ DoneFor(inbox[i], p)

\* No command of the last step failed that could have succeeded: a check
\* without a worktree and the deletion of a missing branch always fail.
NoAvoidableFailure ==
    \A i \in 1..Len(log) :
        \/ log[i].ok
        \/ log[i].op = "cleanup"
        \/ log[i].op = "check" /\ log[i].arg = "nodir"
        \/ log[i].op = "delbranch" /\ log[i].arg = "nobranch"

CleanerOrder ==
    LET c == Pos("check")
        k == Pos("kill")
        r == Pos("remove")
        b == Pos("delbranch")
        e == Pos("cleanup")
    IN  /\ \A op \in Destructive \cup {"check", "cleanup"} :
              Cardinality(Events(op)) <= 1
        /\ (k # 0 \/ r # 0 \/ b # 0 \/ e # 0) => (c # 0 /\ c < e)
        /\ k # 0 => (c < k /\ r # 0 /\ k < r)
        /\ r # 0 => (c < r /\ r < e /\ log[c].arg # "dirty")
        /\ b # 0 => (r # 0 /\ r < b /\ b < e /\ log[r].arg # "fail")
        /\ (c # 0 /\ log[c].arg # "dirty") => r # 0
        /\ (r # 0 /\ log[r].arg # "fail") => (b # 0 /\ log[e].arg = "ok")
        /\ (r # 0 /\ log[r].arg = "fail") =>
              /\ b = 0
              /\ log[e].arg = "remove"
              /\ worktree[log[r].who]
              /\ branch[log[r].who] = pre.branch[log[r].who]
        /\ (r # 0 /\ session[log[r].who]) => (k # 0 /\ ~log[k].ok)
        /\ (k # 0 /\ log[k].ok) => ~session[log[k].who]
        /\ (r # 0 /\ log[r].arg = "ok") => ~worktree[log[r].who]
        /\ (b # 0 /\ log[b].ok) => ~branch[log[b].who]

\* C10, the case reached: the session could not be stopped and the branch
\* could not be deleted, and the cleaner returned nil.
WarningsOnly ==
    /\ Pos("kill") # 0 /\ ~log[Pos("kill")].ok
    /\ Pos("delbranch") # 0 /\ ~log[Pos("delbranch")].ok
    /\ pre.branch[log[Pos("delbranch")].who]
    /\ Pos("cleanup") # 0 /\ log[Pos("cleanup")].arg = "ok"

(* ------------------------- auto-spawn properties ----------------------- *)

\* The last step was an auto-spawn pass that counted the active polecats.
SpawnPass == pc = "end" /\ Events("count") # {}

Only(op) == SelectSeq(log, LAMBDA e : e.op = op)
Calls == Only("spawn")
Successes == SelectSeq(Calls, LAMBDA e : e.ok)
Ids(events) == [i \in 1..Len(events) |-> events[i].who]
IssueTags(events) ==
    [i \in 1..Len(events) |-> [kind |-> "issue", name |-> events[i].who,
                               ts |-> NoTime]]
Min(a, b) == IF a < b THEN a ELSE b

\* The active workers and the cap as the tick found them, and the free slots.
ActiveBefore ==
    Cardinality({p \in Polecats : pre.worktree[p] /\ pre.session[p]})
Cap == IF Config.MaxWorkers > 0 THEN Config.MaxWorkers ELSE 4
Slots == IF Cap > ActiveBefore THEN Cap - ActiveBefore ELSE 0

\* The listed ready items that are neither epics nor merge requests nor
\* recorded in spawned_issues when the tick began.
Eligible ==
    SelectSeq(Only("ready"),
              LAMBDA e : /\ e.arg \notin {"merge-request", "epic"}
                         /\ \A i \in 1..Len(pre.spawned) :
                               pre.spawned[i] # [kind |-> "issue", name |-> e.who,
                                                 ts |-> NoTime])

\* C11: an auto-spawn pass makes at most max(0, max_workers - active_count)
\* successful spawner calls, max_workers being 4 when unset; with
\* active_count >= max_workers it makes no spawner call and does not even
\* ask for the ready list; it leaves no more active workers than max_workers
\* unless there were more before.
SpawnWithinCap ==
    SpawnPass =>
        /\ Len(Successes) <= Slots
        /\ ActiveBefore >= Cap => (Calls = <<>> /\ Only("ready") = <<>>)
        /\ getActivePolecatCount <= (IF Cap > ActiveBefore THEN Cap
                                     ELSE ActiveBefore)

\* C11, the case reached: max_workers unset, three workers active, two ready
\* tasks, one spawn.
SpawnStoppedAtDefaultCap ==
    /\ SpawnPass
    /\ Config.MaxWorkers = 0
    /\ ActiveBefore = 3
    /\ Len(Eligible) = 2
    /\ Len(Successes) = 1
    /\ getActivePolecatCount = 4

\* C12: when the ready list was fetched and no spawner call failed, the pass
\* spawned the first min(k, number of eligible items) eligible items, in
\* ready-list order, k being the free slots, and spawned_issues gained
\* exactly their ids, in that order.
FirstEligibleSpawned ==
    (/\ SpawnPass
     /\ Events("error") = {}
     /\ \A i \in 1..Len(Calls) : Calls[i].ok) =>
        /\ Ids(Calls) = SubSeq(Ids(Eligible), 1, Min(Slots, Len(Eligible)))
        /\ SpawnedIssues = pre.spawned \o IssueTags(Calls)

\* C12, the case reached: max_workers 4, two active, ready [bd-a, bd-b, bd-c]:
\* bd-a then bd-b spawned, bd-c left.
TwoOfThreeSpawned ==
    /\ SpawnPass
    /\ Cap = 4 /\ ActiveBefore = 2
    /\ Ids(Only("ready")) = <<"bd-a", "bd-b", "bd-c">>
    /\ Ids(Successes) = <<"bd-a", "bd-b">>
    /\ SpawnedIssues = IssueTags(Successes)
    /\ Len(Calls) = 2

\* C13: spawned_issues gains the ids of the successful spawner calls and no
\* others; the calls are made for the eligible items in order and stop short
\* of the last eligible item only when the free slots are used up, so a
\* failed call is followed by the call for the next eligible item.
SpawnFailureSkipped ==
    SpawnPass =>
        /\ SpawnedIssues = pre.spawned \o IssueTags(Successes)
        /\ Len(Calls) <= Len(Eligible)
        /\ Ids(Calls) = SubSeq(Ids(Eligible), 1, Len(Calls))
        /\ Len(Calls) < Len(Eligible) => Len(Successes) = Slots

\* C13, the case reached: the spawner failed for bd-a and then succeeded for
\* bd-b, and only bd-b is recorded.
SpawnedAfterFailure ==
    /\ SpawnPass
    /\ Len(Calls) = 2
    /\ Calls[1].who = "bd-a" /\ ~Calls[1].ok
    /\ Calls[2].who = "bd-b" /\ Calls[2].ok
    /\ SpawnedIssues = <<[kind |-> "issue", name |-> "bd-b", ts |-> NoTime]>>

\* C14: spawned_issues holds no issue id twice.
NoDuplicateIssueIds ==
    \A i, j \in 1..Len(SpawnedIssues) :
        (i < j /\ SpawnedIssues[i].kind = "issue") =>
            SpawnedIssues[i] # SpawnedIssues[j]

\* C14, the case reached: one pass spawned for the same issue twice.
SpawnedTwiceInOnePass ==
    /\ SpawnPass
    /\ \E i, j \in 1..Len(Successes) :
          i < j /\ Successes[i].who = Successes[j].who

\* C15: checkAndProcess goes from the health check to the mailbox drain, to
\* the watchdog, to the auto-spawn pass when it is configured and past it when
\* it is not, and then returns; no phase is entered twice in a tick or out of
\* this order, a phase stays only while it works through its list, and a
\* phase whose listing failed hands over like any other.
PhasesInOrder ==
    [][/\ pc' # pc =>
            <<pc, pc'>> \in
                {<<"idle", "health">>, <<"health", "drain">>,
                 <<"drain", "watchdog">>,
                 <<"watchdog", IF Config.AutoSpawn THEN "spawn" ELSE "end">>,
                 <<"spawn", "end">>, <<"end", "idle">>}
       /\ (pc' = pc /\ faults' = faults) =>
            (pc \in {"health", "drain", "watchdog"} /\ Len(todo') < Len(todo))
       /\ (Events("error")' # {} /\ faults' = faults) => pc' # pc]_vars

\* C15, the case reached: the watchdog could not list the polecats and the
\* auto-spawn pass is about to run.
WatchdogFailedSpawnNext ==
    /\ pc = "spawn"
    /\ log = <<[op |-> "error", who |-> "", arg |-> "listing polecats", n |-> 0,
               ok |-> FALSE, msg |-> 0]>>

(* -------------------------- watchdog properties ----------------------- *)

\* The watchdog is about to look at p, a running worker whose issue is closed
\* and who has no done tag.
WatchdogTurn(p) ==
    /\ pc = "watchdog"
    /\ todo # <<>>
    /\ Head(todo) = p
    /\ session[p]
    /\ ~DoneTag(p)
    /\ issue[p] = "closed"

\* The waiting entries of p and the timestamp of the first.
WaitingOf(p) ==
    {i \in 1..Len(SpawnedIssues) :
        SpawnedIssues[i].kind = "waiting" /\ SpawnedIssues[i].name = p}
Since(p) == SpawnedIssues[CHOOSE i \in WaitingOf(p) :
                             \A j \in WaitingOf(p) : i <= j].ts

\* The polecats this tick's watchdog walks through, and the one it has just
\* looked at.
TickList == SelectSeq(PolecatOrder, LAMBDA q : pre.worktree[q])
JustWatched(p) ==
    /\ pc = "watchdog"
    /\ Len(todo) < Len(TickList)
    /\ TickList[Len(TickList) - Len(todo)] = p

\* C16: for a running worker with a closed issue and no done tag, the
\* watchdog only logs while the time since the waiting timestamp is below
\* PendingCompletionTimeout and takes the cleanup path (verification, then
\* cleanup or escalation) once it is PendingCompletionTimeout or more,
\* exactly PendingCompletionTimeout included.
TimeoutInclusive ==
    [][\A p \in Polecats :
          (WatchdogTurn(p) /\ WaitingOf(p) # {} /\ todo' = Tail(todo)) =>
              IF now - Since(p) >= PendingCompletionTimeout
              THEN log' # <<>>
              ELSE /\ log' = <<>>
                   /\ world' = world
                   /\ SpawnedIssues' = SpawnedIssues]_vars

\* C16, the case reached: the watchdog has looked at Toast exactly
\* PendingCompletionTimeout after the waiting timestamp and has done nothing.
WaitedExactlyTimeoutNoCleanup ==
    /\ JustWatched("Toast")
    /\ log = <<>>
    /\ session["Toast"] /\ worktree["Toast"]
    /\ issue["Toast"] = "closed"
    /\ ~DoneTag("Toast")
    /\ WaitingOf("Toast") # {}
    /\ now - Since("Toast") = PendingCompletionTimeout

CleanedOk(p) ==
    \E i \in Events("cleanup") : log[i].who = p /\ log[i].arg = "ok"

AbortedOnSafety(p) ==
    /\ pc = "watchdog"
    /\ \/ \E i \in Events("status") : log[i].who = p /\ log[i].arg = "dirty"
       \/ \E i \in Events("pushcheck") :
             log[i].who = p /\ log[i].arg = "unpushed"
       \/ \E i \in Events("cleanup") :
             log[i].who = p /\ log[i].arg = "uncommitted"

\* C18: when the watchdog's timed-out cleanup of a worker stops on a safety
\* ground, an escalation for the worker is sent to the mayor, the worker's
\* session, worktree, branch and work are as they were, and its waiting
\* entry is still in spawned_issues.
WatchdogAbortEscalates ==
    \A p \in Polecats :
        AbortedOnSafety(p) =>
            /\ \E i \in Events("escalate") : log[i].who = p
            /\ session[p] = pre.session[p]
            /\ worktree[p] = pre.worktree[p]
            /\ branch[p] = pre.branch[p]
            /\ work[p] = pre.work[p]
            /\ WaitingOf(p) # {}

\* C18, the case reached: the cleaner refused Toast for its stash and no
\* escalation was sent.
WatchdogRefusedUnescalated ==
    /\ AbortedOnSafety("Toast")
    /\ pre.work["Toast"].stash > 0
    /\ StatusClean(pre.work["Toast"])
    /\ Events("escalate") = {}
    /\ WaitingOf("Toast") # {}

(* ------------------------- lifecycle properties ------------------------ *)

\* The last event of the step's record: what Start or Stop returned.
Returned == log[Len(log)]
StartActed == Events("start") # {}
StopActed == Events("stop") # {}
Did(op, arg) ==
    \E i \in 1..Len(log) : log[i].op = op /\ log[i].arg = arg /\ log[i].ok

\* What C19 says of every Start and holds of every Start: with a live agent
\* in the witness session Start refuses with AlreadyRunning (or cannot read
\* the state file) and changes neither the session nor the state file, and
\* it refuses for no other reason; a Start that succeeds leaves the state
\* file at Running with pid 0.
StartRefusesOrRuns ==
    StartActed' =>
        /\ wsession = "live" =>
              /\ Returned'.arg \in {"already_running", "load"}
              /\ wsession' = wsession
              /\ disk' = disk
              /\ MonitoredPolecats' = MonitoredPolecats
        /\ Returned'.arg = "already_running" => wsession = "live"
        /\ Returned'.arg = "ok" => (disk' = [State |-> "running", PID |-> 0])

\* A step of Start that succeeded has killed the session whose agent was
\* dead and created a new one.
ZombieReplaced ==
    (wsession = "zombie" /\ Returned'.arg = "ok") =>
        /\ Did("killsession", "zombie")'
        /\ Did("newsession", "")'
        /\ wsession' = "live"

\* C19, as amended: Start refuses exactly when the witness session has a live
\* agent, changing nothing; a Start that succeeds persists Running; a
\* background Start that succeeds on a session whose agent is dead has killed
\* it and created a new one, and on no session has created one; a foreground
\* Start kills and creates no session.
StartLifecycle ==
    [][StartActed' =>
          /\ StartRefusesOrRuns
          /\ Returned'.who = "background" =>
                /\ ZombieReplaced
                /\ (wsession = "none" /\ Returned'.arg = "ok") =>
                      (Did("newsession", "")' /\ wsession' = "live")
          /\ Returned'.who = "foreground" =>
                /\ wsession' = wsession
                /\ Events("killsession")' = {}
                /\ Events("newsession")' = {}]_vars

\* C19, as stated: whatever the mode, a Start that succeeds on a session whose
\* agent is dead has killed it and created a new one.
StartLifecycleAnyMode ==
    [][StartActed' => (StartRefusesOrRuns /\ ZombieReplaced)]_vars

\* C19, the case reached: a background Start found the state file at Stopped
\* and a session with a dead agent, killed it, created a new one and
\* persisted Running.
ZombieKilledAndRecreated ==
    /\ StartActed
    /\ Returned.who = "background" /\ Returned.arg = "ok"
    /\ Did("killsession", "zombie")
    /\ Did("newsession", "")
    /\ wsession = "live"
    /\ disk = [State |-> "running", PID |-> 0]

\* The witness runs for Stop when the state file says Running or the witness
\* session exists.
Runs == disk.State = "running" \/ wsession # "none"

\* C20: a Stop of a running witness does not return not_running; when it
\* succeeds it has asked tmux to kill the witness session if there was one,
\* the session being gone unless tmux failed, and has persisted Stopped with
\* pid 0.  A Stop of a witness that does not run returns not_running (or
\* cannot read the state file) and changes neither the state file nor any
\* session.  A Stop right after a Stop that succeeded with its kill returns
\* not_running.
StopLifecycle ==
    [][StopActed' =>
          /\ Runs =>
                /\ Returned'.arg # "not_running"
                /\ Returned'.arg = "ok" =>
                      /\ disk' = [State |-> "stopped", PID |-> 0]
                      /\ wsession # "none" =>
                            \E i \in Events("killsession")' :
                                /\ log'[i].arg = wsession
                                /\ log'[i].ok => wsession' = "none"
                                /\ ~log'[i].ok => wsession' = wsession
                      /\ wsession = "none" =>
                            (wsession' = "none" /\ Events("killsession")' = {})
          /\ ~Runs =>
                /\ Returned'.arg \in {"not_running", "load"}
                /\ disk' = disk
                /\ wsession' = wsession
                /\ session' = session
          /\ Returned'.arg # "ok" => disk' = disk
          /\ (/\ StopActed
              /\ Returned.arg = "ok"
              /\ \A i \in 1..Len(log) : log[i].ok) =>
                Returned'.arg \in {"not_running", "load"}]_vars

\* C20, the case reached: Stop has killed the live witness session and
\* persisted Stopped with pid 0.
StoppedAndKilled ==
    /\ StopActed
    /\ Returned.arg = "ok"
    /\ Did("killsession", "live")
    /\ wsession = "none"
    /\ disk = [State |-> "stopped", PID |-> 0]

(* ------------------------ the loop and its Stop ------------------------ *)

\* checkAndProcess is entered, or is under way.
TickBegins == pc = "idle" /\ pc' = "health"
InTick == pc \notin {"idle", "end"}

\* The process in run() ends.
LoopEnds == loop.proc = "up" /\ loop'.proc = "down"

\* C21: the patrol loop runs its initial tick at once and then one tick per
\* ticker period, ticks never overlap, and a Stop takes effect between ticks:
\* no tick begins once Stop has completed, and no tick in progress is cut
\* short.
LoopStopsBetweenTicks ==
    [][/\ TickBegins =>
            /\ loop.proc = "up"
            /\ disk.State = "running"
            /\ \/ loop.first /\ ~loop.ticker
               \/ loop.ticker /\ loop.tick = 1 /\ loop'.tick = 0
       /\ LoopEnds => ~InTick]_vars

\* C21, the case reached: a Stop that has read a running witness's state file
\* is about to signal the process while checkAndProcess is under way.
StopArrivesMidTick ==
    /\ loop.proc = "up"
    /\ InTick
    /\ stopper.at = "loaded"
    /\ stopper.disk = Running

(* ----------------------------- a restart ------------------------------ *)

\* Stop() writes the stopped state; Start() finds no witness running.
StopWrites ==
    /\ stopper.at = "loaded"
    /\ stopper'.at = "none"
    /\ stopper.disk.State = "running"
StartWrites == loop'.starts = loop.starts + 1

\* C22: with no state file the witness is Stopped; a Stop and a Start each
\* leave spawned_issues in the state file and worker_states in the handoff
\* bead exactly as they were, and Start changes nothing but the lifecycle
\* fields: the state, the pid, the monitored workers.
RestartPreservesData ==
    [][/\ disk = Absent =>
            /\ loadState(disk, saved).State = "stopped"
            /\ loadState(disk, saved).SpawnedIssues = <<>>
       /\ (stopper.at = "loaded" /\ stopper'.at = "none"
           /\ stopper.disk = [State |-> "stopped", PID |-> 0]) =>
              /\ UNCHANGED <<store, loop>>
              /\ \E i \in Events("stop")' : log'[i].arg = "not_running"
       /\ (StopWrites \/ StartWrites) =>
            /\ saved' = saved
            /\ bead'.WorkerStates = bead.WorkerStates
       /\ StopWrites => disk' = [State |-> "stopped", PID |-> 0]
       /\ StartWrites =>
            /\ disk'.State = "running"
            /\ loop'.proc = "up" => disk'.PID = SelfPID]_vars

\* C22, the case reached: the second Start's patrol is about to make its
\* initial check; the state file still lists a nudge of Toast, and the
\* handoff bead, written by that Start, has no worker states left.
HandoffLostOnRestart ==
    /\ loop.proc = "up"
    /\ loop.first
    /\ loop.starts = MaxStarts
    /\ CountOf(saved, nudgeKey("Toast")) > 0
    /\ bead.PatrolInstanceID # ""
    /\ bead.WorkerStates = EmptyMap

(* ------------------------- worker_states entries ---------------------- *)

\* The workers a handoff state has an entry for.
Tracked(hs) == DOMAIN hs.WorkerStates

\* p's worktree is removed in this step.
CleanedNow(p) == worktree[p] /\ ~worktree'[p]

\* C23: across ticks and restarts a worker_states entry is only added or
\* updated in place; it leaves the handoff state, in memory or in the bead,
\* only in a step that cleans the worker up.
EntriesOnlyLeaveWhenCleaned ==
    [][/\ \A p \in Tracked(handoffState) :
            p \in Tracked(handoffState') \/ CleanedNow(p)
       /\ \A p \in Tracked(bead) :
            p \in Tracked(bead') \/ CleanedNow(p)]_vars

\* C23, the case reached: Toast was seen healthy by the first patrol, and the
\* patrol of the second Start begins with no entry for it.
ObservedWorkerForgotten ==
    /\ loop.proc = "up"
    /\ loop.first
    /\ loop.starts = MaxStarts
    /\ hist["Toast"].last = "healthy"
    /\ "Toast" \notin Tracked(handoffState)

(* ---------------------- the bead and the memory ----------------------- *)

\* C24: the handoff document is written after each mutation: whenever the
\* in-memory handoff state changes (a nudge recorded, a nudge count reset,
\* last_active stamped, an arm or patrol-instance id set, last_patrol
\* updated) the document equals it afterwards, so that a supervisor started
\* again resumes with exactly the nudge counts its predecessor had.
DocumentFollowsMemory ==
    [][/\ handoffState' # handoffState => bead' = handoffState'
       /\ (StartWrites /\ loop'.proc = "up") =>
            \A p \in Polecats : NudgeCountOf(p)' = NudgeCountOf(p)]_vars

\* C24, the case reached: Toast was nudged, then seen healthy, which reset its
\* count in memory; the patrol of the second Start resumes with the count
\* the bead still had.
ResumedWithStaleNudgeCount ==
    /\ loop.proc = "up"
    /\ loop.first
    /\ loop.starts = MaxStarts
    /\ hist["Toast"].last = "healthy"
    /\ NudgeCountOf("Toast") > 0

(* ----------------------- the description read back -------------------- *)

\* C25: whatever handoff state saveHandoffState writes, loadHandoffState
\* parses the description back to the same worker_states, also when a worker
\* name or an issue id contains braces, double quotes or backslashes.
DescriptionRoundTrip ==
    output.done => output.value = input

\* C25, the case reached: a state whose strings hold an opening brace, a
\* double quote, a backslash and a closing brace has been written and read
\* back as it was.
SpecialCharactersReadBack ==
    /\ output.done
    /\ output.value = input
    /\ input.workers = 1
    /\ input.name = <<"{", "\"">>
    /\ input.issue = <<"\\", "}">>

(* --------------------------- canonical addresses ---------------------- *)

\* C26: canonicalizing an address a second time changes nothing, and turning
\* the identity back into an address gives the canonical form, for every
\* address string.
CanonicalizeIdempotent ==
    output.done =>
        /\ addressToIdentity(output.value) = output.value
        /\ identityToAddress(output.value) = output.value

\* Whether a string ends in two slashes.
EndsInTwoSlashes(address) ==
    /\ Len(address) >= 2
    /\ address[Len(address)] = "/"
    /\ address[Len(address) - 1] = "/"

\* C26 as amended: the identity turned back into an address is the canonical
\* form for every address string, and canonicalizing a second time changes
\* nothing for every address string that does not end in two slashes.
CanonicalizeIdempotentUpToOneSlash ==
    output.done =>
        /\ identityToAddress(output.value) = output.value
        /\ ~EndsInTwoSlashes(input) =>
               addressToIdentity(output.value) = output.value

\* C26, the case reached: an address with a crew segment and a trailing
\* slash has been canonicalized to rig/name.
CrewAddressCanonicalized ==
    /\ input = <<"Toast", "/", "crew", "/", "Toast", "/">>
    /\ output.done
    /\ output.value = <<"Toast", "/", "Toast">>

(* ---------------------------- state file reads ------------------------ *)

\* C27: a reader of the state file gets a whole document, the previous one
\* or the new one, also while another process is saving.
ReaderSeesWholeDocument ==
    output.done => output.value \in {<<doc>> : doc \in StateDocs}

\* C27, the case reached: a read fell between the truncation and the write
\* of a save and got an empty file.
ReadDuringSave ==
    /\ output.done
    /\ output.value = <<>>
    /\ input # <<>>

(* ----------------------------- eligible workers ----------------------- *)

\* Number of wildcards in a pattern.
Stars(pattern) == Cardinality({i \in 1..Len(pattern) : pattern[i] = "*"})

\* Path segments: strings without a slash.
Segments == {c \in Callers : ~Contains(c, "/")}

\* The caller is the pattern with its wildcard replaced by one segment; a
\* pattern without wildcard stands for itself.
Instance(pattern, caller) ==
    IF Stars(pattern) = 0 THEN caller = pattern
    ELSE LET parts == Split(pattern, "*", <<>>) IN
         \E seg \in Segments : caller = parts[1] \o seg \o parts[2]

\* C29: for worker lists whose patterns have at most one wildcard, the caller
\* is found eligible exactly when it is an instance of one of the patterns.
EligibleIffInstance ==
    (output.done /\ \A i \in 1..Len(input.workers) : Stars(input.workers[i]) <= 1) =>
        output.value =
            <<IF \E i \in 1..Len(input.workers) :
                    Instance(input.workers[i], input.caller)
              THEN "true" ELSE "false">>

\* C29, the case reached: a caller that is the pattern's prefix and suffix
\* run together, with no room for the wildcard, has been checked.
WildcardWithoutRoom ==
    /\ output.done
    /\ input.workers = << <<"a", "*", "a">> >>
    /\ input.caller = <<"a">>
    /\ output.value = <<"panic">>

(* ---------------------------- claim and release ----------------------- *)

\* The command that has just run.
JustRan(cmd) == mailq'.last.n # mailq.last.n /\ mailq'.last.cmd = cmd

\* C28: a claim that finds mail gives an oldest open message of the queue to
\* the caller, in progress; a release by the holder puts the message back as
\* it was sent, assigned to its queue and open; a release by anyone else, or
\* of a message still in the queue, fails and changes nothing.
ClaimAndRelease ==
    [][LET last == mailq'.last
           id == last.id
       IN  /\ (JustRan("claim") /\ id # "") =>
                 /\ mailq.msgs[id].assignee = QueueAssignee("work")
                 /\ mailq.msgs[id].status = "open"
                 /\ \A other \in MessageIds :
                       (/\ mailq.msgs[other].assignee = QueueAssignee("work")
                        /\ mailq.msgs[other].status = "open")
                       => mailq.msgs[id].created <= mailq.msgs[other].created
                 /\ mailq'.msgs[id].assignee = last.caller
                 /\ mailq'.msgs[id].status = "in_progress"
                 /\ \A other \in MessageIds \ {id} :
                       mailq'.msgs[other] = mailq.msgs[other]
           /\ (JustRan("release") /\ id \in MessageIds) =>
                 IF mailq.msgs[id].assignee = last.caller /\ mailq.msgs[id].queue # ""
                 THEN /\ last.err = ""
                      /\ mailq'.msgs[id].assignee = QueueAssignee(mailq.msgs[id].queue)
                      /\ mailq'.msgs[id].status = "open"
                      /\ mailq'.msgs[id] = mailq.sent[id]
                      /\ \A other \in MessageIds \ {id} :
                            mailq'.msgs[other] = mailq.msgs[other]
                 ELSE /\ last.err # ""
                      /\ mailq'.msgs = mailq.msgs]_vars

\* C28, the case reached: as the third command, the worker holding a
\* claimed queue message has released it, and every message is as it was
\* sent.
ClaimedThenReleased ==
    /\ mailq.last.n = 3
    /\ mailq.last.cmd = "release"
    /\ mailq.last.caller = <<"gastown", "/", "Toast">>
    /\ mailq.last.err = ""
    /\ mailq.msgs = mailq.sent
    /\ mailq.sent["m1"].queue = "work"

(* ------------------------------ legacy delete ------------------------- *)

\* The file a delete of fs.id is to leave.
Rewritten == SortByTimestamp(Filtered(input, fs.id))

\* C30: during and after a legacy delete the inbox file, and what a reader
\* got from it, is the whole old file or the whole new one; after a failure
\* while writing it is the old file; after message_not_found it is the old
\* file.
LegacyDeleteAtomic ==
    /\ fs.inbox \in {input, Rewritten}
    /\ output.done => output.value \in {input, Rewritten}
    /\ fs.failed => fs.inbox = input
    /\ fs.result = "message_not_found" => fs.inbox = input

\* C30, the case reached: a write to the temp file failed and the delete
\* went on to rename it over the inbox.
FailedWriteRenamed ==
    /\ fs.failed
    /\ fs.result = "ok"
    /\ fs.inbox # input
    /\ fs.inbox # Rewritten

(* ------------------------------- HELP handled ------------------------- *)

MergedAnnotatesWisp ==
    [][(/\ output' # output
        /\ output'.done
        /\ output'.value[1].ProtocolType = "MERGED"
        /\ output'.value[1].Handled
        /\ output'.value[1].WispCreated # "")
       => fs' # fs]_vars

\* C32, the case reached: MERGED was handled and a wisp reported found.
MergedFoundWisp ==
    /\ output.done
    /\ output.value[1].ProtocolType = "MERGED"
    /\ output.value[1].Handled
    /\ output.value[1].WispCreated # ""

(* ------------------------------- gt install --------------------------- *)

\* C33: an install without --force on a directory that is a Gas Town HQ
\* fails saying so and changes nothing in the directory; with --force it is
\* not refused, rewrites the HQ, and succeeds unless one of its steps fails;
\* and so for every further install.
InstallRefusedUnlessForced ==
    [][\A isWS \in IsWorkspace(fs) :
          (fs'.runs = fs.runs + 1 /\ output'.value[3] = isWS /\ isWS) =>
              IF ~output'.value[2]
              THEN /\ output'.value[1] = "directory is already a Gas Town HQ"
                   /\ fs'.files = fs.files
                   /\ fs'.created = fs.created
              ELSE /\ output'.value[1] # "directory is already a Gas Town HQ"
                   /\ output'.value[1] = "nil" =>
                         /\ fs'.created = fs'.runs
                         /\ IsWorkspace(fs') = {TRUE}]_vars

\* C33, the case reached: the second install was refused and the third,
\* forced, has succeeded.
ForcedReinstall ==
    /\ fs.runs = 3
    /\ fs.created = 3
    /\ output.value = <<"nil", TRUE, TRUE>>

(* ------------------------------- failed sends ------------------------- *)

\* C34: every stuck observation of a worker at nudge count 0 or 1 sends
\* its one mail, the NUDGE at 0 and the ESCALATION at 1, and advances the
\* count by exactly one whether or not the send succeeded; at a higher count
\* nothing is sent, so a failed send is not repeated.
CountAdvancesSentOrNot ==
    [][\A i \in 1..Len(log') :
          (pc = "health" /\ log'[i].op = "observe" /\ log'[i].arg = "stuck") =>
              LET p == log'[i].who
                  n == log'[i].n
                  after == getNudgeCount(handoffState'.WorkerStates,
                                         SpawnedIssues', p)
                  mails == {j \in 1..Len(log') :
                               log'[j].op \in {"nudge", "escalate"}}
              IN  IF n \in {0, 1}
                  THEN /\ after = n + 1
                       /\ Cardinality(mails) = 1
                       /\ \A j \in mails :
                             /\ log'[j].who = p
                             /\ log'[j].op = IF n = 0 THEN "nudge" ELSE "escalate"
                  ELSE /\ after = n
                       /\ mails = {}]_vars

\* C34, the case reached: the escalation of a worker could not be sent and
\* the worker stands at count 2.
FailedEscalationCounted ==
    \E i \in 1..Len(log) :
        /\ log[i].op = "escalate"
        /\ ~log[i].ok
        /\ getNudgeCount(handoffState.WorkerStates, SpawnedIssues, log[i].who) = 2

(* ------------------------------- done tags ---------------------------- *)

\* C35: when a worker has been cleaned successfully its done:<name> tag is
\* gone from spawned_issues, so that the tag speaks only of the worker that
\* bears the name now.
DoneTagRemovedWhenCleaned ==
    \A i \in 1..Len(log) :
        (log[i].op = "cleanup" /\ log[i].arg = "ok") =>
            ~hasSentDone(SpawnedIssues, log[i].who)

\* C35, the case reached: a running worker that sent POLECAT_DONE has had
\* its session killed and its worktree removed, and the tag is still there.
CleanedAfterDone ==
    \E p \in Polecats :
        /\ \E i \in 1..Len(log) :
              log[i].op = "kill" /\ log[i].who = p /\ log[i].ok
        /\ \E i \in 1..Len(log) :
              log[i].op = "remove" /\ log[i].who = p /\ log[i].arg = "ok"
        /\ \E i \in 1..Len(log) :
              log[i].op = "cleanup" /\ log[i].who = p /\ log[i].arg = "ok"
        /\ ~worktree[p]
        /\ ~session[p]
        /\ hasSentDone(SpawnedIssues, p)

(* ------------------------------- clearWaiting ------------------------- *)

\* C36: clearWaiting for worker W removes exactly the waiting:W:<timestamp>
\* entries and leaves every other entry as it was, in its place: issue
\* ids, nudge: and done: tags and the waiting entries of all other workers.
ClearsOnlyOwnWaiting ==
    output.done =>
        output.value =
            SelectSeq(input.spawned,
                      LAMBDA e : ~(e.kind = "waiting" /\ e.name = input.name))

\* C36, the case reached: Joe's entries are cleared from a list that holds
\* a waiting entry of Joey.
ClearedBesideNamesake ==
    /\ output.done
    /\ input.name = "Joe"
    /\ \E i \in 1..Len(input.spawned) :
          input.spawned[i].kind = "waiting" /\ input.spawned[i].name = "Joey"
    /\ \E i \in 1..Len(input.spawned) :
          input.spawned[i].kind = "waiting" /\ input.spawned[i].name = "Joe"

(* ------------------------------- two claimants ------------------------ *)

\* C37: when two eligible workers run mail claim on one queue at the same
\* time, no message id is reported claimed by both of them.
ClaimedByAtMostOne ==
    \A a, b \in Claimants :
        (/\ a # b
         /\ input[a].at = "claimed"
         /\ input[b].at = "claimed")
        => input[a].oldest # input[b].oldest

\* C37, the case reached: both claimants have listed the queue before either
\* has updated the message, and both commands have finished.
BothListedThenClaimed ==
    /\ \A c \in Claimants : input[c].at = "claimed"
    /\ \E id \in MessageIds :
          /\ \A c \in Claimants : input[c].oldest = id
          /\ mailq.msgs[id].assignee \in Claimants

(* ------------------------------- append and rewrite ------------------- *)

\* C38: a message added by Append is in the inbox file once the Append and a
\* Delete of another message, in whatever order their steps ran, have both
\* returned.
AppendedSurvivesRewrite ==
    (/\ mailq = <<"appended">>
     /\ fs.pc = "idle"
     /\ fs.result # "")
    => \E i \in 1..Len(fs.inbox) : fs.inbox[i] = "m4"

\* C38, the case reached: the Append ran while the Delete was writing its
\* temp file, and the Delete has renamed it over the inbox.
AppendedDuringRewrite ==
    /\ mailq = <<"appended">>
    /\ fs.pc = "idle"
    /\ fs.result = "ok"
    /\ ~fs.failed
    /\ fs.inbox = Rewritten

(* ------------------------------- a failed Start ----------------------- *)

\* C39: when a background Start returns an error after it created the
\* session, because saving the state failed or the agent did not launch in
\* time, the session has been killed, and the state file says running only
\* if it said so before the call.
FailedStartLeavesNoTrace ==
    [][\A i \in 1..Len(log') :
          (/\ log'[i].op = "start"
           /\ log'[i].who = "background"
           /\ log'[i].arg \in {"save", "wait"}
           /\ \E j \in 1..Len(log') :
                 log'[j].op = "newsession" /\ log'[j].ok)
          => /\ wsession' = "none"
             /\ disk'.State = "running" => disk.State = "running"]_vars

\* C39, the case reached: the agent did not launch in time, the session
\* was killed, Start has returned its error and the state file says running.
StartTimedOutSessionKilled ==
    /\ wsession = "none"
    /\ disk = Started
    /\ \E i \in 1..Len(log) :
          log[i].op = "start" /\ log[i].who = "background" /\ log[i].arg = "wait"
    /\ \E i \in 1..Len(log) :
          log[i].op = "killsession" /\ log[i].arg = "new" /\ log[i].ok

(* ------------------------------- costs digest ------------------------- *)

\* C40: costs digest deletes only session-cost wisps whose cost is in the
\* digest bead it has created, and none unless it created the bead; in a dry
\* run it creates and deletes nothing.
DeletesOnlyCounted ==
    [][/\ (fs.store \ fs'.store) \subseteq (IF fs'.created THEN fs'.bead ELSE {})
       /\ fs'.digestDryRun => (~fs'.created /\ fs.store \subseteq fs'.store)]_vars

\* C40, the case reached: the digest bead has been created from the one
\* session queried, and another session of the target day has been recorded
\* since the query; the delete pass comes next.
RecordedBetweenQueryAndDelete ==
    /\ fs.at = "created"
    /\ fs.created
    /\ fs.bead = {"s1"}
    /\ "s2" \in fs.store

====
